---- MODULE Spec2Model ----
(***************************************************************************)
(* Edit application and validation convergence of the coding assistant:    *)
(* the search/replace patcher (diff_editor.py), the response applier and   *)
(* validation pipeline (builder.py) and the project scanner                *)
(* (project_context.py).                                                   *)
(*                                                                         *)
(* Text is a sequence of one-character strings.  Several specifications    *)
(* share the variables; each one drives one part of the program and holds  *)
(* the variables of the other parts at their idle values.                  *)
(***************************************************************************)
EXTENDS Integers, Sequences, FiniteSets, TLC

VARIABLES
    content,     \* apply_search_replace: the file content handed in
    search,      \* apply_search_replace: the SEARCH text
    replace,     \* apply_search_replace: the REPLACE text
    result,      \* apply_search_replace: the returned text, or None
    ppc,         \* "idle" | "called" | "returned"
    fs,              \* the disk: location -> text of the file there
    created_files,   \* the cache of written files: path -> text
    config,          \* the session's configuration
    auto_apply,      \* auto_apply as the running handler sees it
    new_files,       \* process_response_files: the files still to handle
    apc,             \* "off" | "idle" | "files" | "done" | "raised"
    wrote_any,       \* process_response_files: its return value so far
    written,         \* the locations written so far
    refused,         \* the locations refused by validate_filepath so far
    local_fix,       \* the running call is auto_fix with is_local_import
    manifest_before, \* requirements.txt as the running call found it
    nresp,           \* the number of responses processed
    project,     \* run_validation_pipeline: what the project directory holds
    stages,      \* run_validation_pipeline: the list of stages
    status,      \* stage index -> "Pending" | "Running" | "Passed" | "Failed"
    si,          \* the index of the stage of the loop
    attempt,     \* the attempt of the inner loop
    runs,        \* how often the check of this stage has run
    fixes,       \* how often auto_fix was called for this stage
    ended,       \* the stage that ended last: its check and the prompt
    qpc,         \* "off" | "loop" | "attempt" | "decide" | "returned" | "after"
    quit_seen,   \* quit was answered to ask_continue in the running stage
    vcs,         \* build_plan: the validated commit and checkpoint made
    ret,         \* the returned value, "none" until then
    disk,        \* scan_project: the source files of the project directory
    ctx,         \* scan_project: the ProjectContext it returns
    spc,         \* "off" | "ready" | "scanned"
    dep_graph,   \* detect_circular_imports: ctx.dependency_graph
    key_order,   \* detect_circular_imports: the order of the keys of the graph
    cyc,         \* detect_circular_imports: the state of its search
    cpc,         \* "off" | "called" | "returned"
    raw,         \* clean_file_content: the text handed in
    raw_path,    \* clean_file_content: the path handed in
    cleaned,     \* the text returned by the first call, or Raised
    recleaned,   \* the text returned by the call on cleaned, or Raised
    kpc,         \* "off" | "called" | "once" | "twice" | "raised"
    vpath,       \* validate_filepath: the path handed in
    vroot,       \* validate_filepath: the location of base_dir
    valid,       \* validate_filepath: the returned value
    vpc,         \* "off" | "called" | "returned"
    ops,         \* apply_edits: the edits handed in
    edisk,       \* apply_edits: the disk, the cache and the results so far
    enext,       \* apply_edits: the index of the edit the loop is at
    tried,       \* the indices of the edits the loop has taken up, in order
    eauto,       \* apply_edits: auto_apply
    epc,         \* "off" | "loop" | "returned" | "raised"
    chunks,      \* _stream_llm_response: full_response, chunk by chunk
    ending,      \* how the stream ended, "open" until then
    streamed,    \* the text _stream_llm_response returned
    caller,      \* who called: "auto_fix" | "generate_step_code"
    processed,   \* the text handed to process_response_files, or NoText
    tpc,         \* "off" | "streaming" | "returned" | "processed" | "dropped"
    plan_ids,    \* build_plan: the ids of the steps of the plan, in order
    start_step,  \* build_plan: the step to start from
    build_mode,  \* build_plan: "1" | "2" | "3"
    cwd_differs, \* the working directory is not the project root
    progress,    \* the progress files: in the project root, in the cwd
    bidx,        \* the index of the step the loop is at
    event,       \* what the loop did last, and for which step id
    bpc,         \* "off" | "loop" | "paused" | "finished"
    handled,     \* build_plan: what became of each step of the plan
    error_output, \* diagnose_test_error: the lines of the output handed in
    cwd_files,   \* the files below the working directory
    diag,        \* diagnose_test_error: the diagnosis returned
    dpc,         \* "off" | "called" | "returned"
    _history,    \* UndoManager: the snapshots saved, oldest first
    _redo_stack, \* UndoManager: the snapshots undone
    messages,    \* the session: the conversation
    ulog,        \* the last operations, what the last one returned, the
                 \* last state saved, the conversation the last undo left
    npath,       \* normalize_path: the raw path handed in
    normed,      \* normalize_path: the result, and the result of the result
    npc,         \* normalize_path: "off", "called", "once", "twice"
    markup,      \* process_response_files: the response, tag by tag
    parse_out,   \* what its two parsers made of the response
    mpc          \* "off" | "called" | "parsed"

patchVars == <<content, search, replace, result, ppc>>

applyVars == <<fs, created_files, config, auto_apply, new_files, apc,
               wrote_any, written, refused, local_fix, manifest_before,
               nresp>>

pipeVars == <<project, stages, status, si, attempt, runs, fixes, ended, qpc,
              ret, quit_seen, vcs>>

scanVars == <<disk, ctx, spc>>

cycleVars == <<dep_graph, key_order, cyc, cpc>>

cleanVars == <<raw, raw_path, cleaned, recleaned, kpc>>

\* the variables of the functions that are driven on their own
pathVars == <<vpath, vroot, valid, vpc>>

editVars == <<ops, edisk, enext, tried, eauto, epc>>

streamVars == <<chunks, ending, streamed, caller, processed, tpc>>

buildVars == <<plan_ids, start_step, build_mode, cwd_differs, progress, bidx,
               event, bpc, handled>>

diagVars == <<error_output, cwd_files, diag, dpc>>

parseVars == <<markup, parse_out, mpc>>

\* the variables of the parts added last
normVars == <<npath, normed, npc>>

undoVars == <<_history, _redo_stack, messages, ulog>>

moreVars == <<parseVars, normVars, undoVars>>

toolVars == <<cleanVars, pathVars, editVars, streamVars, buildVars, diagVars,
              moreVars>>

vars == <<patchVars, applyVars, pipeVars, scanVars, cycleVars, toolVars>>

\* ------------------------------------------------------------------------
\* Text helpers (Python str semantics)
\* ------------------------------------------------------------------------

NL == "\n"
SP == " "

\* Python's None as returned by apply_search_replace
None == <<"None">>

Min(S) == CHOOSE x \in S : \A y \in S : x <= y

\* All sequences over A of length at most n
SeqUpTo(A, n) == UNION {[1..k -> A] : k \in 0..n}

\* s[i:] and s[:i] with a 0-based index i, as Python slices
Drop(s, i) == SubSeq(s, i + 1, Len(s))
Take(s, i) == SubSeq(s, 1, i)

\* the 1-based positions at which t occurs in s (overlaps included)
Occurrences(s, t) ==
    {i \in 1..(Len(s) - Len(t) + 1) : SubSeq(s, i, i + Len(t) - 1) = t}

\* t in s
Contains(s, t) == Occurrences(s, t) # {}

\* s.index(t), 0-based
Index(s, t) == Min(Occurrences(s, t)) - 1

RECURSIVE CountFrom(_, _, _)
CountFrom(s, t, from) ==
    LET later == {i \in Occurrences(s, t) : i >= from}
    IN  IF later = {} THEN 0
        ELSE 1 + CountFrom(s, t, Min(later) + Len(t))

\* s.count(t): the number of non-overlapping occurrences, left to right
Count(s, t) ==
    IF t = <<>> THEN Len(s) + 1 ELSE CountFrom(s, t, 1)

\* s.replace(t, r, 1)
ReplaceFirst(s, t, r) ==
    IF ~Contains(s, t) THEN s
    ELSE LET i == Index(s, t)
         IN  Take(s, i) \o r \o Drop(s, i + Len(t))

\* s.count("\n")
CountNL(s) == Cardinality({i \in 1..Len(s) : s[i] = NL})

RECURSIVE Split(_)
\* s.split("\n")
Split(s) ==
    LET nls == {i \in 1..Len(s) : s[i] = NL}
    IN  IF nls = {} THEN <<s>>
        ELSE LET i == Min(nls)
             IN  <<Take(s, i - 1)>> \o Split(Drop(s, i))

RECURSIVE Join(_)
\* "\n".join(lines)
Join(lines) ==
    IF lines = <<>> THEN <<>>
    ELSE IF Len(lines) = 1 THEN lines[1]
    ELSE lines[1] \o <<NL>> \o Join(Tail(lines))

\* the length of the longest prefix / suffix of s made of characters of W
LeadLen(s, W) ==
    IF \A i \in 1..Len(s) : s[i] \in W THEN Len(s)
    ELSE Min({i \in 1..Len(s) : s[i] \notin W}) - 1

TrailLen(s, W) ==
    IF \A i \in 1..Len(s) : s[i] \in W THEN Len(s)
    ELSE Len(s) - (CHOOSE i \in 1..Len(s) :
                     s[i] \notin W /\ \A j \in (i + 1)..Len(s) : s[j] \in W)

\* str.lstrip(), str.rstrip(), str.strip(): whitespace is blank or newline
WS == {SP, NL}
LStrip(s) == Drop(s, LeadLen(s, WS))
RStrip(s) == Take(s, Len(s) - TrailLen(s, WS))
Strip(s) == LStrip(RStrip(s))

\* [line.rstrip() for line in lines] and [line.strip() for line in lines]
RStripLines(lines) == [i \in 1..Len(lines) |-> RStrip(lines[i])]
StripLines(lines) == [i \in 1..Len(lines) |-> Strip(lines[i])]

\* lines[a:b] for 0 <= a, Python slice (clamped at the end)
Slice(lines, a, b) ==
    SubSeq(lines, a + 1, IF b > Len(lines) THEN Len(lines) ELSE b)

\* ------------------------------------------------------------------------
\* diff_editor.py: the search/replace engine
\* ------------------------------------------------------------------------

_normalize_trailing_whitespace(text) == Join(RStripLines(Split(text)))

_strip_all_whitespace(text) == Join(StripLines(Split(Strip(text))))

\* the leading whitespace of the first non-blank line of lines, "" if none
FirstIndent(lines) ==
    LET nb == {i \in 1..Len(lines) : Strip(lines[i]) # <<>>}
    IN  IF nb = {} THEN <<>>
        ELSE LET line == lines[Min(nb)]
             IN  Take(line, Len(line) - Len(LStrip(line)))

_verify_anchor_match(content_slice, search_lines) ==
    IF Len(search_lines) <= 2 THEN TRUE
    ELSE
    LET total == Len(search_lines) - 2
        hit(i) ==
            /\ i < Len(content_slice)
            /\ LET s == Strip(search_lines[i + 1])
                   c == Strip(content_slice[i + 1])
               IN  s = c \/ Contains(c, s) \/ Contains(s, c)
        matches == Cardinality({i \in 1..(Len(search_lines) - 2) : hit(i)})
    IN  2 * matches >= total

\* strategy 2: trailing whitespace stripped on each line
TrailingMatch(c, s, r) ==
    LET content_norm == _normalize_trailing_whitespace(c)
        search_norm == _normalize_trailing_whitespace(s)
        idx == Index(content_norm, search_norm)
        start_line == CountNL(Take(content_norm, idx))
        search_line_count == CountNL(search_norm) + 1
        content_lines == Split(c)
    IN  Join(Slice(content_lines, 0, start_line)
             \o Split(r)
             \o Slice(content_lines, start_line + search_line_count,
                      Len(content_lines)))

\* strategy 3: the windows whose fully stripped lines equal the stripped search
StrippedWindows(c, s) ==
    LET search_stripped == _strip_all_whitespace(s)
        content_lines == Split(c)
        search_line_count == Len(Split(Strip(s)))
    IN  {i \in 0..(Len(content_lines) - search_line_count) :
            Join(StripLines(Slice(content_lines, i, i + search_line_count)))
                = search_stripped}

StrippedMatch(c, s, r) ==
    LET content_lines == Split(c)
        search_line_count == Len(Split(Strip(s)))
        i == Min(StrippedWindows(c, s))
        original_indent ==
            FirstIndent(Slice(content_lines, i, i + search_line_count))
        replace_indent == FirstIndent(Split(r))
        reindent(line) ==
            IF Strip(line) # <<>>
            THEN original_indent \o Drop(line, Len(replace_indent))
            ELSE line
        replace_lines ==
            IF replace_indent # original_indent
            THEN [k \in 1..Len(Split(r)) |-> reindent(Split(r)[k])]
            ELSE Split(r)
    IN  Join(Slice(content_lines, 0, i)
             \o replace_lines
             \o Slice(content_lines, i + search_line_count,
                      Len(content_lines)))

\* strategy 4: the windows anchored on the first and last search line
AnchorWindows(c, s) ==
    LET content_lines == Split(c)
        search_lines_list == Split(Strip(s))
        search_line_count == Len(search_lines_list)
        first == Strip(search_lines_list[1])
        last == Strip(search_lines_list[Len(search_lines_list)])
    IN  {i \in 0..(Len(content_lines) - 1) :
            /\ Strip(content_lines[i + 1]) = first
            /\ i + search_line_count <= Len(content_lines)
            /\ Strip(content_lines[i + search_line_count]) = last
            /\ _verify_anchor_match(
                   Slice(content_lines, i, i + search_line_count),
                   search_lines_list)}

AnchorMatch(c, s, r) ==
    LET content_lines == Split(c)
        search_lines_list == Split(Strip(s))
        search_line_count == Len(search_lines_list)
        first == Strip(search_lines_list[1])
        last == Strip(search_lines_list[Len(search_lines_list)])
    IN  IF Len(search_lines_list) < 3 THEN None
        ELSE IF first = <<>> \/ last = <<>> THEN None
        ELSE IF AnchorWindows(c, s) = {} THEN None
        ELSE LET i == Min(AnchorWindows(c, s))
             IN  Join(Slice(content_lines, 0, i)
                      \o Split(r)
                      \o Slice(content_lines, i + search_line_count,
                               Len(content_lines)))

\* apply_search_replace with the strategies out of order: the
\* trailing-whitespace match is tried before the exact match
apply_search_replace_fuzzy_first(c, s, r) ==
    IF c = <<>> \/ s = <<>> THEN None
    ELSE IF Contains(_normalize_trailing_whitespace(c),
                     _normalize_trailing_whitespace(s))
         THEN TrailingMatch(c, s, r)
    ELSE IF Contains(c, s) /\ Count(c, s) = 1 THEN ReplaceFirst(c, s, r)
    ELSE IF StrippedWindows(c, s) # {} THEN StrippedMatch(c, s, r)
    ELSE AnchorMatch(c, s, r)

apply_search_replace(c, s, r) ==
    IF c = <<>> \/ s = <<>> THEN None
    ELSE IF Contains(c, s) /\ Count(c, s) = 1 THEN ReplaceFirst(c, s, r)
    ELSE IF Contains(_normalize_trailing_whitespace(c),
                     _normalize_trailing_whitespace(s))
         THEN TrailingMatch(c, s, r)
    ELSE IF StrippedWindows(c, s) # {} THEN StrippedMatch(c, s, r)
    ELSE AnchorMatch(c, s, r)

\* ------------------------------------------------------------------------
\* builder.py / diff_editor.py: paths
\*
\* A path is a sequence of tokens: "/", "\\", ".", " " and file-name chunks
\* such as "a.py".  A location on disk is a sequence of segments counted
\* from the filesystem root.
\* ------------------------------------------------------------------------

SLASH == "/"
BACKSLASH == "\\"
DOT == "."

\* filepath.replace("\\", "/")
BackslashesToSlashes(p) ==
    [i \in 1..Len(p) |-> IF p[i] = BACKSLASH THEN SLASH ELSE p[i]]

\* if filepath.startswith("./"): filepath = filepath[2:]
DropDotSlash(p) ==
    IF Len(p) >= 2 /\ p[1] = DOT /\ p[2] = SLASH THEN Drop(p, 2) ELSE p

RECURSIVE CollapseSlashes(_)
\* while "//" in filepath: filepath = filepath.replace("//", "/")
CollapseSlashes(p) ==
    IF Len(p) < 2 THEN p
    ELSE IF p[1] = SLASH /\ p[2] = SLASH THEN CollapseSlashes(Tail(p))
    ELSE <<p[1]>> \o CollapseSlashes(Tail(p))

normalize_path(filepath) ==
    IF filepath = <<>> THEN filepath
    ELSE LET p == CollapseSlashes(DropDotSlash(BackslashesToSlashes(filepath)))
         IN  Take(p, Len(p) - TrailLen(p, {SLASH}))

_normalize_edit_path(filepath) ==
    IF filepath = <<>> THEN filepath
    ELSE Strip(CollapseSlashes(DropDotSlash(BackslashesToSlashes(filepath))))

RECURSIVE SplitOn(_, _)
\* the segments of p between separators sep
SplitOn(p, sep) ==
    LET at == {i \in 1..Len(p) : p[i] = sep}
    IN  IF at = {} THEN <<p>>
        ELSE <<Take(p, Min(at) - 1)>> \o SplitOn(Drop(p, Min(at)), sep)

RECURSIVE Walk(_, _)
\* follow the segments from a location: "" and "." stay, ".." goes up
Walk(loc, segs) ==
    IF segs = <<>> THEN loc
    ELSE LET seg == Head(segs)
             next == IF seg = <<>> \/ seg = <<DOT>> THEN loc
                     ELSE IF seg = <<DOT, DOT>>
                          THEN Take(loc, IF Len(loc) = 0 THEN 0 ELSE Len(loc) - 1)
                     ELSE Append(loc, seg)
         IN  Walk(next, Tail(segs))

\* (base_dir / filepath).resolve(): an absolute filepath replaces base_dir
Resolve(base, filepath) ==
    IF Len(filepath) >= 1 /\ filepath[1] = SLASH
    THEN Walk(<<>>, SplitOn(filepath, SLASH))
    ELSE Walk(base, SplitOn(filepath, SLASH))

\* full_path.relative_to(base_dir.resolve()) does not raise
IsWithin(loc, base) ==
    Len(loc) >= Len(base) /\ Take(loc, Len(base)) = base

\* validate_filepath without the relative_to test
validate_filepath_unchecked(filepath, base) ==
    ~(filepath = <<>> \/ Strip(filepath) = <<>>)

\* validate_filepath that only looks at the first segment of the path
validate_filepath_first_segment(filepath, base) ==
    IF filepath = <<>> \/ Strip(filepath) = <<>> THEN FALSE
    ELSE /\ filepath[1] # SLASH
         /\ SplitOn(filepath, SLASH)[1] # <<DOT, DOT>>

validate_filepath(filepath, base) ==
    IF filepath = <<>> \/ Strip(filepath) = <<>> THEN FALSE
    ELSE IsWithin(Resolve(base, filepath), base)

\* ------------------------------------------------------------------------
\* builder.py / diff_editor.py: content cleaning
\* ------------------------------------------------------------------------

\* a run of three backquotes
FENCE == "FENCE"
BOM == "BOM"

\* an exception leaving the function
Raised == <<"Raised">>

StartsWithFence(line) == Strip(line) # <<>> /\ Strip(line)[1] = FENCE

RECURSIVE DropLeadingBlank(_)
\* while lines and not lines[0].strip(): lines = lines[1:]
DropLeadingBlank(lines) ==
    IF lines # <<>> /\ Strip(lines[1]) = <<>>
    THEN DropLeadingBlank(Tail(lines)) ELSE lines

RECURSIVE DropTrailingFences(_)
\* while lines and lines[-1].strip().startswith(FENCE): lines.pop()
DropTrailingFences(lines) ==
    IF lines # <<>> /\ StartsWithFence(lines[Len(lines)])
    THEN DropTrailingFences(Take(lines, Len(lines) - 1)) ELSE lines

clean_code_block(text) ==
    IF text = <<>> THEN text
    ELSE LET l1 == DropLeadingBlank(Split(text))
             l2 == IF l1 # <<>> /\ StartsWithFence(l1[1]) THEN Tail(l1) ELSE l1
         IN  Join(DropTrailingFences(l2))

\* content.lstrip(BOM), content.strip("\n"), one trailing newline
NormalizeEnds(text) ==
    LET a == Drop(text, LeadLen(text, {BOM}))
        b == Drop(a, LeadLen(a, {NL}))
        c == Take(b, Len(b) - TrailLen(b, {NL}))
    IN  IF c # <<>> THEN c \o <<NL>> ELSE c

MarkdownNames == {"notes.md"}

\* Path(filepath).suffix.lower() in _MARKDOWN_EXTENSIONS
IsMarkdownPath(filepath) ==
    filepath # <<>> /\ filepath[Len(filepath)] \in MarkdownNames

\* builder.py:315 evaluates lines.strip() on the list of lines, which raises
\* AttributeError as soon as the first non-blank line opens a fence
clean_file_content(text, filepath) ==
    IF text = <<>> THEN text
    ELSE IF IsMarkdownPath(filepath) THEN NormalizeEnds(text)
    ELSE LET lines == DropLeadingBlank(Split(text))
         IN  IF lines # <<>> /\ StartsWithFence(lines[1]) THEN Raised
             ELSE IF lines = <<>> THEN <<>>
             ELSE NormalizeEnds(Join(lines))

\* ------------------------------------------------------------------------
\* builder.py: parsing a response and applying it to the project directory
\*
\* A response is the sequence of its tags in text order.  A tag has a kind
\* ("file": <file path=...>...</file>, "edit": <edit path=...>...</edit>,
\* "md": a path header followed by a fenced block), the raw path it names
\* and its body text.
\* ------------------------------------------------------------------------

Tag(kind, path, body) == [kind |-> kind, path |-> path, body |-> body]

\* diff_editor.py:362-368: file_pattern has one group only, and
\* re.finditer(file_pattern, ...) yields a one-character match for every
\* character of the response.  The first character that is not blank and is
\* not in found_paths reaches match.group(2), which raises IndexError; every
\* response that holds a tag has such a character (the quote around a path
\* attribute is never a path), so only a response without text returns [].
parse_edit_blocks(response) ==
    [raised |-> response # <<>>, blocks |-> <<>>]

\* builder.py:968-984: an exception of parse_edit_blocks leaves no edit block
EditBlocksOf(response) ==
    IF parse_edit_blocks(response).raised THEN <<>>
    ELSE parse_edit_blocks(response).blocks

RECURSIVE FilesFrom(_, _, _)
\* one loop of parse_files_from_response over the tags of the given kind:
\* the first tag of a path wins, its body is cleaned
FilesFrom(tags, kind, found) ==
    IF tags = <<>> THEN <<>>
    ELSE LET t == Head(tags)
             path == normalize_path(Strip(t.path))
         IN  IF t.kind = kind /\ path # <<>> /\ path \notin found
             THEN <<[path |-> path,
                     content |-> clean_file_content(t.body, path)]>>
                  \o FilesFrom(Tail(tags), kind, found \cup {path})
             ELSE FilesFrom(Tail(tags), kind, found)

PathsOf(files) == {files[i].path : i \in 1..Len(files)}

\* <file> tags first, then the fenced blocks under a path header, skipping
\* paths already found; raised when cleaning a body raises
parse_files_from_response(response) ==
    LET tagged == FilesFrom(response, "file", {})
        fenced == FilesFrom(response, "md", PathsOf(tagged))
        files == tagged \o fenced
    IN  [raised |-> \E i \in 1..Len(files) : files[i].content = Raised,
         files |-> files]

REQUIREMENTS == "requirements.txt"

\* auto_fix, builder.py:1606-1632: with is_local_import, when the response
\* mentions requirements.txt, holds "<file" and has a <file> or <edit> tag
\* whose path attribute is exactly requirements.txt, the <file> and <edit>
\* tags with exactly that path are cut out
StripManifestEdits(response) ==
    LET mentions == \E i \in 1..Len(response) :
                        \/ \E k \in 1..Len(response[i].path) :
                               response[i].path[k] = REQUIREMENTS
                        \/ \E k \in 1..Len(response[i].body) :
                               response[i].body[k] = REQUIREMENTS
        hasFileTag == \E i \in 1..Len(response) : response[i].kind = "file"
        targets(t) == t.kind \in {"file", "edit"} /\ t.path = <<REQUIREMENTS>>
        req_match == \E i \in 1..Len(response) : targets(response[i])
    IN  IF mentions /\ hasFileTag /\ req_match
        THEN SelectSeq(response, LAMBDA t : ~targets(t))
        ELSE response

\* ------------------------------------------------------------------------
\* The patcher driven over bounded inputs
\* ------------------------------------------------------------------------

MaxContentLen == 4
MaxSearchLen == 3
MaxReplaceLen == 2

ContentChars == {"a", SP, NL}
ReplaceChars == {"b", SP, NL}

\* apply_edits hands over the file's text (empty for a new file), a search
\* text it has checked to be non-empty, and the replacement
PatchInit ==
    /\ content \in SeqUpTo(ContentChars, MaxContentLen)
    /\ search \in SeqUpTo(ContentChars, MaxSearchLen) \ {<<>>}
    /\ replace \in SeqUpTo(ReplaceChars, MaxReplaceLen)
    /\ result = None
    /\ ppc = "called"

\* indented lines: the texts of the third strategy are lines of code at
\* some depth
MaxIndent == 2

Spaces(n) == [k \in 1..n |-> SP]
CodeLines(chars) ==
    {Spaces(n) \o <<ch>> : n \in 0..MaxIndent, ch \in chars}

\* texts of one line or of two lines
OneOrTwo(lines) ==
    {Join(<<x>>) : x \in lines} \cup {Join(<<x, y>>) : x, y \in lines}

\* a file of indented lines, a search text of lines at another depth, and a
\* replacement of indented and blank lines
ReindentInit ==
    /\ content \in OneOrTwo(CodeLines({"a", "c"}) \cup {<<>>})
    /\ search \in OneOrTwo(CodeLines({"a", "c"}))
    /\ replace \in OneOrTwo(CodeLines({"b"}) \cup {<<>>})
    /\ result = None
    /\ ppc = "called"

PatchIdle ==
    /\ content = <<>>
    /\ search = <<>>
    /\ replace = <<>>
    /\ result = None
    /\ ppc = "idle"

ApplySearchReplace ==
    /\ ppc = "called"
    /\ result' = apply_search_replace(content, search, replace)
    /\ ppc' = "returned"
    /\ UNCHANGED <<content, search, replace>>
    /\ UNCHANGED <<applyVars, pipeVars, scanVars, cycleVars, toolVars>>

\* ------------------------------------------------------------------------
\* builder.py: process_response_files and auto_fix as a state machine
\* ------------------------------------------------------------------------

\* the project directory, and the files of the model's disk
BaseDir == << <<"proj">> >>
FileName == "a.py"
InsideLoc == BaseDir \o << <<FileName>> >>
ManifestLoc == BaseDir \o << <<REQUIREMENTS>> >>

OldText == <<"a", NL>>

\* the text a tag carries, and the same text inside a fence
NewText == <<"b">>
Fenced == <<FENCE, NL, "b", NL, FENCE>>

\* the marker lines of a search/replace block, and a body made of one block
SEARCH_MARK == "<<<<<<< SEARCH"
DIVIDER == "======="
REPLACE_MARK == ">>>>>>> REPLACE"
Markers == {SEARCH_MARK, DIVIDER, REPLACE_MARK}
Marked == <<SEARCH_MARK, NL, "a", NL, DIVIDER, NL, "b", NL, REPLACE_MARK>>

\* the tags an LLM response may hold: files inside the project directory,
\* paths that leave it, the manifest under several spellings, a file whose
\* body is fenced, a file whose body is a search/replace block, and edits
Tags ==
    { Tag("file", <<FileName>>, NewText),
      Tag("file", <<FileName>>, Fenced),
      Tag("file", <<FileName>>, Marked),
      Tag("file", <<DOT, DOT, SLASH, FileName>>, NewText),
      Tag("file", <<DOT, DOT, BACKSLASH, FileName>>, NewText),
      Tag("file", <<SLASH, FileName>>, NewText),
      Tag("file", <<REQUIREMENTS>>, NewText),
      Tag("file", <<DOT, SLASH, REQUIREMENTS>>, NewText),
      Tag("md", <<REQUIREMENTS>>, NewText),
      Tag("edit", <<REQUIREMENTS>>, NewText),
      Tag("edit", <<DOT, DOT, SLASH, FileName>>, NewText) }

MaxTags == 1
MaxResponses == 2

\* a generated response holds at least one tag
Responses == SeqUpTo(Tags, MaxTags) \ {<<>>}

Exists(loc) == loc \in DOMAIN fs

ReadText(loc) == IF Exists(loc) THEN fs[loc] ELSE <<>>

WriteText(loc, text) ==
    [l \in DOMAIN fs \cup {loc} |-> IF l = loc THEN text ELSE fs[l]]

Remember(path, text) ==
    [p \in DOMAIN created_files \cup {path} |->
        IF p = path THEN text ELSE created_files[p]]

\* the number of lines by which a rewrite counts as destructive
DestructiveLines == 50

Abs(n) == IF n < 0 THEN -n ELSE n

\* the content of a location that cannot be read as a file (a directory, a
\* file the process may not read): read_text raises an OSError
NotReadable == <<"NotReadable">>

\* one round of the loop of apply_edits (diff_editor.py:466-575) over
\* d = [fs, created_files, written, results, raised]; full_path is
\* base_dir / filepath and _write_file writes it without any check of where
\* it lies; action: what the operator types at the prompt; oserror: the
\* disk refuses the write
apply_edit(edit, d, auto, action, oserror) ==
    LET filepath == edit.path
        full_path == Resolve(BaseDir, filepath)
        exists == full_path \in DOMAIN d.fs
        old_content == IF exists THEN d.fs[full_path]
                       ELSE IF filepath \in DOMAIN d.created_files
                            THEN d.created_files[filepath]
                       ELSE <<>>
        new_content == IF edit.type = "search_replace"
                       THEN apply_search_replace(old_content, edit.search,
                                                 edit.replace)
                       ELSE edit.content
        done(success) ==
            [d EXCEPT !.results =
                Append(@, [path |-> filepath, success |-> success])]
        wrote ==
            [fs |-> [l \in DOMAIN d.fs \cup {full_path} |->
                        IF l = full_path THEN new_content ELSE d.fs[l]],
             created_files |->
                 [q \in DOMAIN d.created_files \cup {filepath} |->
                        IF q = filepath THEN new_content
                        ELSE d.created_files[q]],
             written |-> d.written \cup {full_path},
             results |-> Append(d.results,
                                [path |-> filepath, success |-> TRUE]),
             raised |-> FALSE]
    IN  IF filepath = <<>> THEN done(FALSE)
        ELSE IF exists /\ d.fs[full_path] = NotReadable
        THEN [d EXCEPT !.raised = TRUE]
        ELSE IF edit.type = "search_replace" /\ edit.search = <<>>
        THEN done(FALSE)
        ELSE IF edit.type = "search_replace" /\ new_content = None
        THEN done(FALSE)
        ELSE IF edit.type = "full_replace" /\ Strip(edit.content) = <<>>
        THEN done(FALSE)
        ELSE IF edit.type \notin {"search_replace", "full_replace"}
        THEN done(FALSE)
        ELSE IF old_content # <<>> /\ Strip(old_content) = Strip(new_content)
        THEN done(TRUE)
        ELSE IF auto \/ action = "y"
        THEN IF oserror THEN done(FALSE) ELSE wrote
        ELSE done(FALSE)

RECURSIVE apply_edits(_, _, _, _)
\* diff_editor.py:453-577: the loop over the edits, left at once by an
\* exception; yes: the operator answers y at every prompt
apply_edits(edits, d, auto, yes) ==
    IF edits = <<>> \/ d.raised THEN d
    ELSE apply_edits(Tail(edits),
                     apply_edit(Head(edits), d, auto,
                                IF yes THEN "y" ELSE "s", FALSE),
                     auto, yes)

RECURSIVE NewFromEdits(_, _)
\* builder.py:1006-1012: full_replace blocks whose path no <file> gave
NewFromEdits(blocks, existing_paths) ==
    IF blocks = <<>> THEN <<>>
    ELSE LET edit == Head(blocks)
             path == normalize_path(edit.path)
         IN  IF edit.type = "full_replace" /\ path # <<>>
                /\ path \notin existing_paths /\ edit.content # <<>>
             THEN <<[path |-> path, content |-> edit.content]>>
                  \o NewFromEdits(Tail(blocks), existing_paths)
             ELSE NewFromEdits(Tail(blocks), existing_paths)

ApplyInit ==
    /\ fs \in {[l \in S |-> OldText] :
                  S \in SUBSET {InsideLoc, ManifestLoc}}
    /\ created_files = <<>>
    /\ config \in [auto_apply : BOOLEAN, auto_apply_fixes : BOOLEAN,
                    confirm_destructive : {TRUE}]
    /\ auto_apply = FALSE
    /\ new_files = <<>>
    /\ apc = "idle"
    /\ wrote_any = FALSE
    /\ written = {}
    /\ refused = {}
    /\ local_fix = FALSE
    /\ manifest_before = <<>>
    /\ nresp = 0

ApplyIdle ==
    /\ fs = <<>>
    /\ created_files = <<>>
    /\ config = [auto_apply |-> FALSE, auto_apply_fixes |-> FALSE,
                 confirm_destructive |-> TRUE]
    /\ auto_apply = FALSE
    /\ new_files = <<>>
    /\ apc = "off"
    /\ wrote_any = FALSE
    /\ written = {}
    /\ refused = {}
    /\ local_fix = FALSE
    /\ manifest_before = <<>>
    /\ nresp = 0

\* process_response_files up to the loop over new_files (builder.py:946-1017)
Begin(response, is_local, auto) ==
    /\ nresp' = nresp + 1
    /\ auto_apply' = auto
    /\ local_fix' = is_local
    /\ manifest_before' = ReadText(ManifestLoc)
    /\ \E edit_blocks \in {EditBlocksOf(response)},
          parsed \in {parse_files_from_response(response)} :
       \E edits_only \in {SelectSeq(edit_blocks,
                                    LAMBDA e : e.type = "search_replace")},
          files \in {parsed.files
                       \o NewFromEdits(edit_blocks, PathsOf(parsed.files))} :
       \E yes \in IF edits_only = <<>> THEN {FALSE} ELSE BOOLEAN :
       \E d \in {apply_edits(edits_only,
                              [fs |-> fs, created_files |-> created_files,
                               written |-> written, results |-> <<>>,
                               raised |-> FALSE],
                              auto, yes)} :
             /\ fs' = d.fs
             /\ created_files' = d.created_files
             /\ written' = d.written
             /\ wrote_any' = (/\ ~d.raised
                              /\ \E k \in 1..Len(d.results) :
                                    d.results[k].success)
             /\ IF parsed.raised
                THEN /\ apc' = "raised"
                     /\ new_files' = <<>>
                ELSE /\ apc' = IF files = <<>> THEN "done" ELSE "files"
                     /\ new_files' = files
    /\ UNCHANGED <<config, refused>>

\* build_plan hands the generated step to process_response_files
\* (builder.py:2552)
ProcessStepResponse ==
    /\ apc \in {"idle", "done", "raised"}
    /\ nresp < MaxResponses
    /\ \E response \in Responses : Begin(response, FALSE, config.auto_apply)
    /\ UNCHANGED <<patchVars, pipeVars, scanVars, cycleVars, toolVars>>

\* auto_fix from the reply of the LLM on (builder.py:1603-1641)
AutoFix ==
    /\ apc \in {"idle", "done", "raised"}
    /\ nresp < MaxResponses
    /\ \E full_response \in Responses, is_local_import \in BOOLEAN :
          Begin(IF is_local_import THEN StripManifestEdits(full_response)
                ELSE full_response,
                is_local_import,
                config.auto_apply \/ config.auto_apply_fixes)
    /\ UNCHANGED <<patchVars, pipeVars, scanVars, cycleVars, toolVars>>

\* write_project_file (builder.py:1278-1296); oserror: the disk refuses
WriteProjectFile(filepath, text, oserror) ==
    \E path \in {normalize_path(filepath)} :
    \E loc \in {Resolve(BaseDir, path)} :
        IF path = <<>> \/ ~validate_filepath(path, BaseDir) \/ oserror
        THEN UNCHANGED <<fs, written>>
        ELSE /\ fs' = WriteText(loc, clean_file_content(text, path))
             /\ written' = written \cup {loc}

\* one round of the loop over new_files (builder.py:1018-1069) with
\* _handle_existing_file and _handle_new_file; answer is what the operator
\* types at the prompt when nothing is applied automatically
HandleFile ==
    /\ apc = "files"
    /\ new_files # <<>>
    /\ \E filepath \in {normalize_path(Head(new_files).path)},
          text \in {Head(new_files).content},
          rest \in {Tail(new_files)} :
       \E full_path \in {Resolve(BaseDir, filepath)} :
       /\ new_files' = rest
       /\ apc' = IF rest = <<>> THEN "done" ELSE "files"
       /\ IF filepath = <<>>
          THEN UNCHANGED <<fs, created_files, written, refused, wrote_any>>
          ELSE IF ~validate_filepath(filepath, BaseDir)
          THEN /\ refused' = refused \cup {full_path}
               /\ UNCHANGED <<fs, created_files, written, wrote_any>>
          ELSE IF Exists(full_path)
          THEN LET old_content == fs[full_path]
                   old_lines == Len(Split(old_content))
                   new_lines == Len(Split(text))
                   is_destructive == Abs(old_lines - new_lines) > DestructiveLines
               IN  IF Strip(old_content) = Strip(text)
                   THEN UNCHANGED <<fs, created_files, written, refused,
                                    wrote_any>>
                   ELSE \E answer \in {"y", "n"}, oserror \in BOOLEAN :
                          IF (auto_apply /\ ~(is_destructive
                                              /\ config.confirm_destructive))
                             \/ answer = "y"
                          THEN /\ WriteProjectFile(filepath, text, oserror)
                               /\ created_files' = Remember(filepath, text)
                               /\ wrote_any' = TRUE
                               /\ UNCHANGED refused
                          ELSE UNCHANGED <<fs, created_files, written,
                                           refused, wrote_any>>
          ELSE \E answer \in {"y", "e", "s"}, oserror \in BOOLEAN :
                  IF auto_apply \/ answer = "y"
                  THEN /\ WriteProjectFile(filepath, text, oserror)
                       /\ created_files' = Remember(filepath, text)
                       /\ wrote_any' = TRUE
                       /\ UNCHANGED refused
                  ELSE IF answer = "e"
                  THEN \E edited_content \in {<<>>, <<"c">>} :
                          IF Strip(edited_content) # <<>>
                          THEN /\ WriteProjectFile(filepath, edited_content,
                                                   oserror)
                               /\ created_files' =
                                      Remember(filepath, edited_content)
                               /\ wrote_any' = TRUE
                               /\ UNCHANGED refused
                          ELSE UNCHANGED <<fs, created_files, written,
                                           refused, wrote_any>>
                  ELSE UNCHANGED <<fs, created_files, written, refused,
                                   wrote_any>>
    /\ UNCHANGED <<config, auto_apply, local_fix, manifest_before, nresp>>
    /\ UNCHANGED <<patchVars, pipeVars, scanVars, cycleVars, toolVars>>

ApplyNext == ProcessStepResponse \/ AutoFix \/ HandleFile

\* ------------------------------------------------------------------------
\* builder.py: run_validation_pipeline as a state machine
\* ------------------------------------------------------------------------

MAX_FIX_ATTEMPTS == 5

MaxInstallCmds == 1

\* labels[i] if i < len(labels) else "Install Step i+1" (builder.py:1708-1710)
InstallLabel(i) ==
    IF i = 1 THEN "Create Virtualenv"
    ELSE IF i = 2 THEN "Install Dependencies"
    ELSE "Install Step"

Stage(name, type) == [name |-> name, type |-> type]

\* BuildStages with a Lint stage for every project type
BuildStages_lint_any_type(p) ==
    <<Stage("Cross-Reference Check", "xref"),
      Stage("Syntax Check", "syntax_check")>>
    \o (IF p.dep_file /\ p.install_cmds > 0
        THEN [i \in 1..p.install_cmds |-> Stage(InstallLabel(i), "command")]
        ELSE <<>>)
    \o (IF p.build_cmd THEN <<Stage("Build", "command")>> ELSE <<>>)
    \o (IF p.lint_cmd THEN <<Stage("Lint", "command")>> ELSE <<>>)
    \o (IF p.test_dir /\ p.test_cmd
        THEN <<Stage("Tests", "command")>> ELSE <<>>)

\* the list of stages run_validation_pipeline builds (builder.py:1694-1733);
\* p tells which files exist and what project_info holds
BuildStages(p) ==
    <<Stage("Cross-Reference Check", "xref"),
      Stage("Syntax Check", "syntax_check")>>
    \o (IF p.dep_file /\ p.install_cmds > 0
        THEN [i \in 1..p.install_cmds |-> Stage(InstallLabel(i), "command")]
        ELSE <<>>)
    \o (IF p.build_cmd THEN <<Stage("Build", "command")>> ELSE <<>>)
    \o (IF p.lint_cmd /\ p.type \in {"rust", "go"}
        THEN <<Stage("Lint", "command")>> ELSE <<>>)
    \o (IF p.test_dir /\ p.test_cmd
        THEN <<Stage("Tests", "command")>> ELSE <<>>)

Projects ==
    [dep_file : BOOLEAN, install_cmds : 0..MaxInstallCmds,
     build_cmd : BOOLEAN, lint_cmd : BOOLEAN, type : {"python", "rust"},
     test_dir : BOOLEAN, test_cmd : BOOLEAN]

NoStage == [stage |-> 0, check |-> "none", prompt |-> "none"]

NoCommit == [validated |-> FALSE, checkpoint |-> FALSE]

PipeInit ==
    /\ project \in Projects
    /\ stages = BuildStages(project)
    /\ status = [i \in 1..Len(stages) |-> "Pending"]
    /\ si = 1
    /\ attempt = 0
    /\ runs = 0
    /\ fixes = 0
    /\ ended = NoStage
    /\ qpc = "loop"
    /\ ret = "none"
    /\ quit_seen = FALSE
    /\ vcs = NoCommit

PipeIdle ==
    /\ project = [dep_file |-> FALSE, install_cmds |-> 0,
                  build_cmd |-> FALSE, lint_cmd |-> FALSE, type |-> "python",
                  test_dir |-> FALSE, test_cmd |-> FALSE]
    /\ stages = <<>>
    /\ status = <<>>
    /\ si = 0
    /\ attempt = 0
    /\ runs = 0
    /\ fixes = 0
    /\ ended = NoStage
    /\ qpc = "off"
    /\ ret = "none"
    /\ quit_seen = FALSE
    /\ vcs = NoCommit

\* ScanStageOutcomes with auto_fix called on the final attempt as well
ScanStageOutcomes_fix_every_attempt(n) ==
    { [passed |-> TRUE, check |-> "error", runs |-> 1, fixes |-> 0],
      [passed |-> TRUE, check |-> "ok", runs |-> 1, fixes |-> 0],
      [passed |-> FALSE, check |-> "fail", runs |-> 1, fixes |-> 1] }

\* the outcomes of one call of _validate_xref or _validate_syntax
\* (builder.py:1787-1905): scan_project raises, finds nothing, or finds
\* errors; check: what the check established, fixed: calls of auto_fix
ScanStageOutcomes(n) ==
    { [passed |-> TRUE, check |-> "error", runs |-> 1, fixes |-> 0],
      [passed |-> TRUE, check |-> "ok", runs |-> 1, fixes |-> 0],
      [passed |-> FALSE, check |-> "fail", runs |-> 1,
       fixes |-> IF n < MAX_FIX_ATTEMPTS - 1 THEN 1 ELSE 0] }

\* the outcomes of one call of _validate_command (builder.py:1908-2027):
\* the command succeeds; or fails and, while attempts remain, the
\* dependencies may be reinstalled and the command run again, which may
\* succeed; otherwise auto_fix is called, and what it returns and what the
\* operator answers to ask_continue do not change the returned False
CommandStageOutcomes(n) ==
    { [passed |-> TRUE, check |-> "ok", runs |-> 1, fixes |-> 0] }
    \cup
    (IF n < MAX_FIX_ATTEMPTS - 1
     THEN { [passed |-> TRUE, check |-> "ok", runs |-> 2, fixes |-> 0] }
          \cup { [passed |-> FALSE, check |-> "fail", runs |-> r, fixes |-> 1] :
                   r \in {1, 2} }
     ELSE { [passed |-> FALSE, check |-> "fail", runs |-> 1, fixes |-> 0] })

\* for stage in stages: passed = False (builder.py:1750-1755)
StartStage ==
    /\ qpc = "loop"
    /\ si <= Len(stages)
    /\ status' = [status EXCEPT ![si] = "Running"]
    /\ attempt' = 0
    /\ runs' = 0
    /\ fixes' = 0
    /\ qpc' = "attempt"
    /\ UNCHANGED <<project, stages, si, ended, ret, quit_seen, vcs>>
    /\ UNCHANGED <<patchVars, applyVars, scanVars, cycleVars, toolVars>>

\* what the operator is asked in one call of a stage's check: only
\* _validate_command asks, after auto_fix returned no changes
\* (builder.py:2016-2025); "none" when auto_fix wrote or was not called
AskContinueAnswers(stage, o) ==
    IF stage.type = "command" /\ ~o.passed /\ o.fixes = 1
    THEN {"none", "r", "c", "q"}
    ELSE {"none"}

\* one round of for attempt in range(MAX_FIX_ATTEMPTS), with the break when
\* the stage passed (builder.py:1756-1775)
Attempt ==
    /\ qpc = "attempt"
    /\ attempt < MAX_FIX_ATTEMPTS
    /\ \E o \in IF stages[si].type = "command"
                THEN CommandStageOutcomes(attempt)
                ELSE ScanStageOutcomes(attempt) :
          /\ runs' = runs + o.runs
          /\ fixes' = fixes + o.fixes
          /\ IF o.passed
             THEN /\ status' = [status EXCEPT ![si] = "Passed"]
                  /\ ended' = [stage |-> si, check |-> o.check,
                              prompt |-> "none"]
                  /\ si' = si + 1
                  /\ qpc' = "loop"
                  /\ UNCHANGED attempt
             ELSE /\ attempt' = attempt + 1
                  /\ IF attempt + 1 = MAX_FIX_ATTEMPTS
                     THEN /\ status' = [status EXCEPT ![si] = "Failed"]
                          /\ ended' = [stage |-> si, check |-> o.check,
                                      prompt |-> "none"]
                          /\ qpc' = "decide"
                     ELSE UNCHANGED <<status, ended, qpc>>
                  /\ UNCHANGED si
          /\ \E answer \in AskContinueAnswers(stages[si], o) :
                quit_seen' = IF o.passed \/ attempt + 1 = MAX_FIX_ATTEMPTS
                             THEN FALSE
                             ELSE quit_seen \/ answer = "q"
    /\ UNCHANGED <<project, stages, ret, vcs>>
    /\ UNCHANGED <<patchVars, applyVars, scanVars, cycleVars, toolVars>>

\* if not passed: if not handle_validation_failure(...): return False
\* (builder.py:1777-1779, 1670-1678)
HandleValidationFailure ==
    /\ qpc = "decide"
    /\ \E action \in {"c", "q"} :
          /\ ended' = [ended EXCEPT !.prompt = action]
          /\ IF action = "c"
             THEN /\ si' = si + 1
                  /\ qpc' = "loop"
                  /\ UNCHANGED ret
             ELSE /\ ret' = "False"
                  /\ qpc' = "returned"
                  /\ UNCHANGED si
    /\ UNCHANGED <<project, stages, status, attempt, runs, fixes, quit_seen,
                   vcs>>
    /\ UNCHANGED <<patchVars, applyVars, scanVars, cycleVars, toolVars>>

\* the loop over the stages is over: return True (builder.py:1781-1784)
AllStagesDone ==
    /\ qpc = "loop"
    /\ si > Len(stages)
    /\ ret' = "True"
    /\ qpc' = "returned"
    /\ UNCHANGED <<project, stages, status, si, attempt, runs, fixes, ended,
                   quit_seen, vcs>>
    /\ UNCHANGED <<patchVars, applyVars, scanVars, cycleVars, toolVars>>

\* build_plan with the value run_validation_pipeline returned
\* (builder.py:2603-2630, 2650-2665): if passed, auto_commit of
\* "... validated" and create_checkpoint, either of which may raise
\* (the exception is caught); else the build pauses
AfterValidation ==
    /\ qpc = "returned"
    /\ qpc' = "after"
    /\ IF ret = "True"
       THEN \E made \in {NoCommit,
                          [validated |-> TRUE, checkpoint |-> FALSE],
                          [validated |-> TRUE, checkpoint |-> TRUE]} :
               vcs' = made
       ELSE UNCHANGED vcs
    /\ UNCHANGED <<project, stages, status, si, attempt, runs, fixes, ended,
                   ret, quit_seen>>
    /\ UNCHANGED <<patchVars, applyVars, scanVars, cycleVars, toolVars>>

PipeNext ==
    \/ StartStage
    \/ Attempt
    \/ HandleValidationFailure
    \/ AllStagesDone
    \/ AfterValidation

\* ------------------------------------------------------------------------
\* project_context.py: the project scanner
\*
\* A module name is the sequence of its dotted parts.  A path is a record:
\* parts, the names between the slashes without the extension, and ext,
\* "py" for a Python file and "dir" for a directory name.
\* ------------------------------------------------------------------------

PyFile(parts) == [parts |-> parts, ext |-> "py"]

\* the members of the two tables that the modelled projects import
PYTHON_STDLIB == {"os"}
PYTHON_THIRD_PARTY == {"requests"}

\* top = module.split(".")[0] is in one of the tables
_is_external_python(module) ==
    module[1] \in PYTHON_STDLIB \cup PYTHON_THIRD_PARTY

\* any(f.startswith(module_path + "/") for f in ctx.files)
HasFileUnder(candidate, files) ==
    \E f \in DOMAIN files :
        /\ Len(f.parts) > Len(candidate)
        /\ Take(f.parts, Len(candidate)) = candidate

NoPath == [parts |-> <<>>, ext |-> "none"]

RECURSIVE ResolveFrom(_, _, _)
\* the loop of resolve_python_import from i segments downwards; NoPath
\* stands for None
ResolveFrom(parts, i, files) ==
    IF i = 0 THEN NoPath
    ELSE LET candidate == Take(parts, i)
         IN  IF PyFile(candidate) \in DOMAIN files THEN PyFile(candidate)
             ELSE IF PyFile(candidate \o <<"__init__">>) \in DOMAIN files
                  THEN PyFile(candidate \o <<"__init__">>)
             ELSE IF HasFileUnder(candidate, files)
                  THEN [parts |-> candidate, ext |-> "dir"]
             ELSE ResolveFrom(parts, i - 1, files)

resolve_python_import(import_path, files) ==
    ResolveFrom(import_path, Len(import_path), files)

\* Python imports recorded by analyze_python never start with a dot
is_local_python_import(import_path, files) ==
    IF _is_external_python(import_path) THEN FALSE
    ELSE LET top_level == <<import_path[1]>>
         IN  \/ PyFile(top_level) \in DOMAIN files
             \/ PyFile(top_level \o <<"__init__">>) \in DOMAIN files
             \/ HasFileUnder(top_level, files)

RECURSIVE BaseFrom(_, _, _)
\* the loop of _get_python_base_module
BaseFrom(parts, i, files) ==
    IF i = 0 THEN parts
    ELSE LET candidate == Take(parts, i)
         IN  IF \/ PyFile(candidate) \in DOMAIN files
                \/ PyFile(candidate \o <<"__init__">>) \in DOMAIN files
                \/ HasFileUnder(candidate, files)
             THEN candidate
             ELSE BaseFrom(parts, i - 1, files)

_get_python_base_module(import_path, files) ==
    BaseFrom(import_path, Len(import_path), files)

\* an import statement of a source file
ImportStmt(module) == [kind |-> "import", module |-> module, names |-> <<>>]
FromStmt(module, names) == [kind |-> "from", module |-> module, names |-> names]

RECURSIVE ImportsOf(_)
\* analyze_python: import m gives m; from m import a, b gives m, m.a, m.b
ImportsOf(stmts) ==
    IF stmts = <<>> THEN <<>>
    ELSE LET st == Head(stmts)
         IN  (IF st.kind = "import" THEN <<st.module>>
              ELSE <<st.module>>
                   \o [k \in 1..Len(st.names) |-> st.module \o <<st.names[k]>>])
             \o ImportsOf(Tail(stmts))

\* analyze_python on a source file: a file that does not parse gets an
\* error and no imports
analyze_python(src) ==
    IF src.broken
    THEN [imports |-> <<>>, errors |-> <<"Syntax error">>]
    ELSE [imports |-> ImportsOf(src.stmts), errors |-> <<>>]

RECURSIVE DepsOf(_, _, _)
\* the inner loop of build_dependency_graph: resolved imports, each once
DepsOf(imports, seen, files) ==
    IF imports = <<>> THEN <<>>
    ELSE LET resolved == resolve_python_import(Head(imports), files)
         IN  IF resolved # NoPath /\ resolved \notin seen
             THEN <<resolved>>
                  \o DepsOf(Tail(imports), seen \cup {resolved}, files)
             ELSE DepsOf(Tail(imports), seen, files)

build_dependency_graph(files) ==
    [f \in DOMAIN files |-> DepsOf(files[f].imports, {}, files)]

RECURSIVE MissingOf(_, _, _, _, _)
\* the inner loop of validate_cross_references for one Python file
MissingOf(fpath, imports, checked_modules, seen_issues, files) ==
    IF imports = <<>> THEN <<>>
    ELSE LET imp == Head(imports)
             base_module == _get_python_base_module(imp, files)
             rest(cm, si2) == MissingOf(fpath, Tail(imports), cm, si2, files)
         IN  IF _is_external_python(imp) THEN rest(checked_modules, seen_issues)
             ELSE IF ~is_local_python_import(imp, files)
                  THEN rest(checked_modules, seen_issues)
             ELSE IF base_module \in checked_modules
                  THEN rest(checked_modules, seen_issues)
             ELSE IF resolve_python_import(imp, files) = NoPath
                     /\ imp \notin seen_issues
                  THEN <<[type |-> "missing_import", file |-> fpath,
                          import |-> imp, severity |-> "error"]>>
                       \o rest(checked_modules \cup {base_module},
                               seen_issues \cup {imp})
             ELSE rest(checked_modules \cup {base_module}, seen_issues)

\* Path(fpath).name as its stem and its extension
NameOf(fpath) == <<fpath.parts[Len(fpath.parts)], fpath.ext>>

\* the tables of project_context.py:565-628, as far as the modelled
\* projects have their members
_NON_IMPORTABLE_FILES == {<<"requirements", "txt">>, <<"setup", "py">>}
_NON_IMPORTABLE_EXTENSIONS == {"txt", "md"}
_ENTRY_POINT_EXACT ==
    {PyFile(<<"main">>), PyFile(<<"src", "main">>), PyFile(<<"app">>)}

\* the names of the modelled projects that start with ".", with "test",
\* with "test_", and that end with "_test"
DotNames == {".hidden"}
TestNames == {"tests", "test_foo", "test_mod", "testimonials"}
TestUnderscoreNames == {"test_foo", "test_mod"}
UnderscoreTestNames == {"foo_test"}

framework_dirs ==
    {"templates", "static", "public", "assets", "media", "migrations",
     "fixtures", "seeds", "locales", "i18n"}

\* project_context.py:662-675: the path looks like a test file
IsTestPath(fpath) ==
    LET parts == fpath.parts
        stem == parts[Len(parts)]
    IN  \/ parts[1] \in TestNames
        \/ \E i \in 2..Len(parts) : parts[i] \in TestUnderscoreNames
        \/ \E i \in 2..(Len(parts) - 1) : parts[i] = "tests"
        \/ stem \in TestUnderscoreNames
        \/ stem \in UnderscoreTestNames /\ fpath.ext = "py"

\* _is_orphan_candidate without its rule on test files
_is_orphan_candidate_tests_too(fpath) ==
    /\ NameOf(fpath)[1] \notin DotNames
    /\ NameOf(fpath) \notin _NON_IMPORTABLE_FILES
    /\ fpath.ext \notin _NON_IMPORTABLE_EXTENSIONS
    /\ fpath \notin _ENTRY_POINT_EXACT
    /\ NameOf(fpath) \notin
          {<<n, "py">> : n \in {"conftest", "__init__", "__main__", "manage",
                               "wsgi", "asgi"}}
    /\ ~\E i \in 1..(Len(fpath.parts) - 1) :
           fpath.parts[i] \in framework_dirs

\* project_context.py:631-687; the file names of the modelled projects
\* carry an extension, so only a directory can be a framework directory
_is_orphan_candidate(fpath) ==
    /\ NameOf(fpath)[1] \notin DotNames
    /\ NameOf(fpath) \notin _NON_IMPORTABLE_FILES
    /\ fpath.ext \notin _NON_IMPORTABLE_EXTENSIONS
    /\ fpath \notin _ENTRY_POINT_EXACT
    /\ NameOf(fpath) \notin
          {<<n, "py">> : n \in {"conftest", "__init__", "__main__", "manage",
                               "wsgi", "asgi"}}
    /\ ~IsTestPath(fpath)
    /\ ~\E i \in 1..(Len(fpath.parts) - 1) :
           fpath.parts[i] \in framework_dirs

RECURSIVE IssuesOver(_, _, _)
\* validate_cross_references, one file after the other in the order of
\* ctx.files: the missing imports, then the orphan files; the modelled
\* sources define nothing, so no duplicate definition is found
IssuesOver(order, files, graph) ==
    IF order = <<>> THEN <<>>
    ELSE MissingOf(Head(order), files[Head(order)].imports, {}, {}, files)
         \o IssuesOver(Tail(order), files, graph)

RECURSIVE OrphansOver(_, _, _)
OrphansOver(order, files, graph) ==
    IF order = <<>> THEN <<>>
    ELSE LET fpath == Head(order)
             all_deps == UNION {{graph[f][k] : k \in 1..Len(graph[f])} :
                                  f \in DOMAIN graph}
         IN  (IF fpath \notin all_deps /\ _is_orphan_candidate(fpath)
              THEN <<[type |-> "orphan_file", file |-> fpath,
                      import |-> <<>>, severity |-> "warning"]>>
              ELSE <<>>)
             \o OrphansOver(Tail(order), files, graph)

validate_cross_references(order, files, graph) ==
    IssuesOver(order, files, graph) \o OrphansOver(order, files, graph)

\* scan_project (project_context.py:246-333): every source file is
\* analysed, the graph is built and the references are validated; nothing
\* else adds to the issues of non-empty files
scan_project(order, sources) ==
    LET files == [f \in DOMAIN sources |-> analyze_python(sources[f])]
        graph == build_dependency_graph(files)
    IN  [files |-> files,
         dependency_graph |-> graph,
         issues |-> validate_cross_references(order, files, graph)]

\* ---- detect_circular_imports ----

InSeq(x, seq) == \E k \in 1..Len(seq) : seq[k] = x

\* rec_stack.index(dep)
IndexIn(seq, x) == Min({k \in 1..Len(seq) : seq[k] = x})

NodesOf(cycle) == {cycle[k] : k \in 1..Len(cycle)}

\* CycleKey that keeps the node the cycle was entered at only
CycleKey_entry_only(cycle) == {cycle[1]}

\* key = tuple(sorted(cycle[:-1]))
CycleKey(cycle) == {cycle[k] : k \in 1..(Len(cycle) - 1)}

RECURSIVE dfs(_, _, _)
RECURSIVE VisitDeps(_, _, _, _)

\* the loop over graph.get(node, []) from the k-th dependency on; s holds
\* visited, rec_stack, reported, issues, and found: every cycle the search
\* came upon, reported or not
VisitDeps(graph, node, k, s) ==
    LET deps == IF node \in DOMAIN graph THEN graph[node] ELSE <<>>
    IN  IF k > Len(deps) THEN s
        ELSE LET dep == deps[k]
                 idx == IndexIn(s.rec_stack, dep)
                 cycle == SubSeq(s.rec_stack, idx, Len(s.rec_stack))
                            \o <<dep>>
                 key == CycleKey(cycle)
                 came == [s EXCEPT !.found = Append(@, cycle)]
             IN  IF InSeq(dep, s.rec_stack)
                 THEN VisitDeps(graph, node, k + 1,
                        IF key \notin s.reported
                        THEN [came EXCEPT
                                !.reported = @ \cup {key},
                                !.issues = Append(@,
                                    [type |-> "circular_import",
                                     file |-> node, cycle |-> cycle,
                                     severity |-> "error"])]
                        ELSE came)
                 ELSE IF dep \notin s.visited
                 THEN VisitDeps(graph, node, k + 1, dfs(graph, dep, s))
                 ELSE VisitDeps(graph, node, k + 1, s)

dfs(graph, node, s) ==
    LET entered == [s EXCEPT !.visited = @ \cup {node},
                             !.rec_stack = Append(@, node)]
        left == VisitDeps(graph, node, 1, entered)
    IN  [left EXCEPT !.rec_stack = SubSeq(@, 1, Len(@) - 1)]

RECURSIVE DfsFrom(_, _, _)
\* for node in graph: if node not in visited: dfs(node)
DfsFrom(graph, order, s) ==
    IF order = <<>> THEN s
    ELSE DfsFrom(graph, Tail(order),
                 IF Head(order) \notin s.visited
                 THEN dfs(graph, Head(order), s) ELSE s)

\* order: the order in which the dict yields its keys
detect_circular_imports(graph, order) ==
    DfsFrom(graph, order,
            [visited |-> {}, rec_stack |-> <<>>, reported |-> {},
             issues |-> <<>>, found |-> <<>>])

\* ---- the scanner and the cycle search driven over bounded inputs ----

MaxImports == 1
MaxDeps == 2

MainPy == PyFile(<<"main">>)
UtilsPy == PyFile(<<"utils">>)
PkgInit == PyFile(<<"pkg", "__init__">>)
PkgMod == PyFile(<<"pkg", "mod">>)

Statements ==
    { ImportStmt(<<"utils">>), ImportStmt(<<"main">>), ImportStmt(<<"os">>),
      ImportStmt(<<"pkg", "mod">>),
      FromStmt(<<"utils">>, <<"helper">>),
      FromStmt(<<"utils">>, <<"helper", "other">>),
      FromStmt(<<"pkg">>, <<"mod">>),
      FromStmt(<<"main">>, <<"run">>) }

Sources ==
    {[stmts |-> st, broken |-> FALSE] : st \in SeqUpTo(Statements, MaxImports)}

Broken == [stmts |-> <<>>, broken |-> TRUE]
Plain == [stmts |-> <<>>, broken |-> FALSE]

\* more files: a helper, test files and files that only look like them, a
\* template, a dotfile, a manifest, a text, a second entry point
HelpersPy == PyFile(<<"helpers">>)
TestFooPy == PyFile(<<"tests", "test_foo">>)
TestModPy == PyFile(<<"pkg", "test_mod">>)
FooTestPy == PyFile(<<"foo_test">>)
TestimonialsPy == PyFile(<<"testimonials">>)
TemplatePy == PyFile(<<"templates", "page">>)
HiddenPy == PyFile(<<".hidden">>)
RequirementsTxt == [parts |-> <<"requirements">>, ext |-> "txt"]
NotesMd == [parts |-> <<"notes">>, ext |-> "md"]
SrcMainPy == PyFile(<<"src", "main">>)

OrphanFiles ==
    {HelpersPy, TestFooPy, TestModPy, FooTestPy, TestimonialsPy, TemplatePy,
     HiddenPy, RequirementsTxt, NotesMd, SrcMainPy, PkgInit}

\* what main.py may import of them
OrphanStatements ==
    { ImportStmt(<<"helpers">>), ImportStmt(<<"tests", "test_foo">>),
      ImportStmt(<<"testimonials">>), FromStmt(<<"templates">>, <<"page">>),
      FromStmt(<<"pkg">>, <<"test_mod">>) }

\* os.walk yields the files of the modelled projects in this order
WalkOrder ==
    <<MainPy, UtilsPy, PkgInit, PkgMod, HelpersPy, TestFooPy, TestModPy,
      FooTestPy, TestimonialsPy, TemplatePy, HiddenPy, RequirementsTxt,
      NotesMd, SrcMainPy>>

FilesIn(sources) == SelectSeq(WalkOrder, LAMBDA f : f \in DOMAIN sources)

NoCtx == [files |-> <<>>, dependency_graph |-> <<>>, issues |-> <<>>]

\* main.py with its imports; utils.py absent, or present with its imports,
\* or present and not parsing; the files of the package pkg present or not
ScanInit ==
    /\ \E main \in Sources, utils \in Sources \cup {Broken},
          present \in SUBSET {UtilsPy, PkgInit, PkgMod} :
          disk = [f \in {MainPy} \cup present |->
                     IF f = MainPy THEN main
                     ELSE IF f = UtilsPy THEN utils ELSE Plain]
    /\ ctx = NoCtx
    /\ spc = "ready"

\* main.py with its imports among any of the further files
OrphanInit ==
    /\ \E main \in {[stmts |-> st, broken |-> FALSE] :
                        st \in SeqUpTo(OrphanStatements, MaxImports)},
          present \in SUBSET OrphanFiles :
          disk = [f \in {MainPy} \cup present |->
                     IF f = MainPy THEN main ELSE Plain]
    /\ ctx = NoCtx
    /\ spc = "ready"

ScanIdle ==
    /\ disk = <<>>
    /\ ctx = NoCtx
    /\ spc = "off"

Nodes == {"A", "B", "C"}

NodeOrders ==
    {o \in [1..Cardinality(Nodes) -> Nodes] :
        \A i \in DOMAIN o, j \in DOMAIN o : i # j => o[i] # o[j]}

CyclesInit ==
    /\ dep_graph \in [Nodes -> SeqUpTo(Nodes, MaxDeps)]
    /\ key_order \in NodeOrders
    /\ cyc = [visited |-> {}, rec_stack |-> <<>>, reported |-> {},
                 issues |-> <<>>, found |-> <<>>]
    /\ cpc = "called"

CyclesIdle ==
    /\ dep_graph = <<>>
    /\ key_order = <<>>
    /\ cyc = [visited |-> {}, rec_stack |-> <<>>, reported |-> {},
                 issues |-> <<>>, found |-> <<>>]
    /\ cpc = "off"

\* scan_project on the project directory
ScanProject ==
    /\ spc = "ready"
    /\ ctx' = scan_project(FilesIn(disk), disk)
    /\ spc' = "scanned"
    /\ UNCHANGED disk
    /\ UNCHANGED <<patchVars, applyVars, pipeVars, cycleVars, toolVars>>

\* detect_circular_imports on a context that holds the graph
DetectCircularImports ==
    /\ cpc = "called"
    /\ cyc' = detect_circular_imports(dep_graph, key_order)
    /\ cpc' = "returned"
    /\ UNCHANGED <<dep_graph, key_order>>
    /\ UNCHANGED <<patchVars, applyVars, pipeVars, scanVars, toolVars>>

\* ------------------------------------------------------------------------
\* clean_file_content applied to a text and then to its own result
\* ------------------------------------------------------------------------

MaxTextLen == 4

TextChars == {"x", SP, NL, FENCE, BOM}

CleanPaths == {<<"a.py">>, <<"notes.md">>}

CleanInit ==
    /\ raw \in SeqUpTo(TextChars, MaxTextLen)
    /\ raw_path \in CleanPaths
    /\ cleaned = <<>>
    /\ recleaned = <<>>
    /\ kpc = "called"

CleanIdle ==
    /\ raw = <<>>
    /\ raw_path = <<>>
    /\ cleaned = <<>>
    /\ recleaned = <<>>
    /\ kpc = "off"

\* content = clean_file_content(content, filepath)
CleanOnce ==
    /\ kpc = "called"
    /\ cleaned' = clean_file_content(raw, raw_path)
    /\ kpc' = IF cleaned' = Raised THEN "raised" ELSE "once"
    /\ UNCHANGED <<raw, raw_path, recleaned>>
    /\ UNCHANGED <<patchVars, applyVars, pipeVars, scanVars, cycleVars>>
    /\ UNCHANGED <<pathVars, editVars, streamVars, buildVars, diagVars,
                 moreVars>>

\* the same call on the text the first call returned
CleanAgain ==
    /\ kpc = "once"
    /\ recleaned' = clean_file_content(cleaned, raw_path)
    /\ kpc' = IF recleaned' = Raised THEN "raised" ELSE "twice"
    /\ UNCHANGED <<raw, raw_path, cleaned>>
    /\ UNCHANGED <<patchVars, applyVars, pipeVars, scanVars, cycleVars>>
    /\ UNCHANGED <<pathVars, editVars, streamVars, buildVars, diagVars,
                 moreVars>>

CleanNext == CleanOnce \/ CleanAgain

\* ------------------------------------------------------------------------
\* validate_filepath applied to paths built from segments
\* ------------------------------------------------------------------------

MaxSegments == 4

\* the segments a path is made of: "..", ".", the empty segment (a doubled
\* or leading slash), a blank, and names
PathSegments ==
    {<<DOT, DOT>>, <<DOT>>, <<>>, <<SP>>, <<"etc">>, <<"passwd">>, <<"proj">>}

RECURSIVE JoinOn(_, _)
\* sep.join(segs)
JoinOn(segs, sep) ==
    IF segs = <<>> THEN <<>>
    ELSE IF Len(segs) = 1 THEN segs[1]
    ELSE segs[1] \o <<sep>> \o JoinOn(Tail(segs), sep)

\* base_dir is /proj or /home/proj
Roots == {<< <<"proj">> >>, << <<"home">>, <<"proj">> >>}

PathInit ==
    /\ vpath \in {JoinOn(segs, SLASH) : segs \in SeqUpTo(PathSegments, MaxSegments)}
    /\ vroot \in Roots
    /\ valid = FALSE
    /\ vpc = "called"

PathIdle ==
    /\ vpath = <<>>
    /\ vroot = <<>>
    /\ valid = FALSE
    /\ vpc = "off"

ValidateFilepath ==
    /\ vpc = "called"
    /\ valid' = validate_filepath(vpath, vroot)
    /\ vpc' = "returned"
    /\ UNCHANGED <<vpath, vroot>>
    /\ UNCHANGED <<patchVars, applyVars, pipeVars, scanVars, cycleVars>>
    /\ UNCHANGED <<cleanVars, editVars, streamVars, buildVars, diagVars,
                 moreVars>>

\* ------------------------------------------------------------------------
\* apply_edits over short lists of edits
\* ------------------------------------------------------------------------

MaxEdits == 2

OtherName == "b.py"
OtherLoc == BaseDir \o << <<OtherName>> >>

SearchReplace(path, s, r) ==
    [type |-> "search_replace", path |-> path, search |-> s, replace |-> r,
     content |-> <<>>]

FullReplace(path, text) ==
    [type |-> "full_replace", path |-> path, search |-> <<>>,
     replace |-> <<>>, content |-> text]

\* edits that succeed and edits that fail in each way the loop knows of
EditOps ==
    { SearchReplace(<<FileName>>, <<"a">>, <<"b">>),
      SearchReplace(<<FileName>>, <<"z">>, <<"b">>),
      SearchReplace(<<FileName>>, <<>>, <<"b">>),
      SearchReplace(<<OtherName>>, <<"a">>, <<"b">>),
      SearchReplace(<<>>, <<"a">>, <<"b">>),
      FullReplace(<<OtherName>>, <<"b">>),
      FullReplace(<<FileName>>, <<SP>>),
      [type |-> "", path |-> <<FileName>>, search |-> <<>>,
       replace |-> <<>>, content |-> <<>>] }

\* a.py holds text; b.py is absent, holds text or cannot be read
EditsInit ==
    /\ ops \in SeqUpTo(EditOps, MaxEdits) \ {<<>>}
    /\ \E other \in {<<>>, OldText, NotReadable} :
          edisk = [fs |-> [l \in {InsideLoc} \cup
                                 (IF other = <<>> THEN {} ELSE {OtherLoc}) |->
                             IF l = InsideLoc THEN OldText ELSE other],
                   created_files |-> <<>>,
                   written |-> {},
                   results |-> <<>>,
                   raised |-> FALSE]
    /\ enext = 1
    /\ tried = <<>>
    /\ eauto \in BOOLEAN
    /\ epc = "loop"

EditsIdle ==
    /\ ops = <<>>
    /\ edisk = [fs |-> <<>>, created_files |-> <<>>, written |-> {},
                results |-> <<>>, raised |-> FALSE]
    /\ enext = 0
    /\ tried = <<>>
    /\ eauto = FALSE
    /\ epc = "off"

\* one round of the loop; after the last round apply_edits returns results
ApplyEdit ==
    /\ epc = "loop"
    /\ \E action \in {"y", "s"}, oserror \in BOOLEAN :
          edisk' = apply_edit(ops[enext], edisk, eauto, action, oserror)
    /\ tried' = Append(tried, enext)
    /\ IF edisk'.raised
       THEN /\ epc' = "raised"
            /\ enext' = enext
       ELSE /\ enext' = enext + 1
            /\ epc' = IF enext' > Len(ops) THEN "returned" ELSE "loop"
    /\ UNCHANGED <<ops, eauto>>
    /\ UNCHANGED <<patchVars, applyVars, pipeVars, scanVars, cycleVars>>
    /\ UNCHANGED <<cleanVars, pathVars, streamVars, buildVars, diagVars,
                 moreVars>>

\* ------------------------------------------------------------------------
\* builder.py: _stream_llm_response and its callers
\* ------------------------------------------------------------------------

MaxChunks == 3

\* the content of one line of the stream; "" is a line without content
ChunkTexts == {<<>>, <<"a">>, <<"b">>}

\* the exceptions the function catches: httpx.ConnectError,
\* httpx.ReadTimeout, httpx.HTTPStatusError, and any other Exception, such
\* as the one json.loads raises on a malformed line
StreamFailures == {"connect", "timeout", "http", "malformed"}

\* no text was handed on
NoText == <<"NoText">>

\* what _stream_llm_response returns with the partial text gathered so far
\* kept after a failure
StreamResult_keep_partial(how, text) == text

\* what _stream_llm_response returns: every except clause returns "",
\* otherwise the text gathered when the loop was left
StreamResult(how, text) ==
    IF how \in StreamFailures THEN <<>> ELSE text

StreamInit ==
    /\ chunks = <<>>
    /\ ending = "open"
    /\ streamed = NoText
    /\ caller \in {"auto_fix", "generate_step_code"}
    /\ processed = NoText
    /\ tpc = "streaming"

StreamIdle ==
    /\ chunks = <<>>
    /\ ending = "open"
    /\ streamed = NoText
    /\ caller = "none"
    /\ processed = NoText
    /\ tpc = "off"

\* one line of resp.iter_lines(): its content is appended; a line with
\* done set leaves the loop and the function returns
ReceiveLine ==
    /\ tpc = "streaming"
    /\ Len(chunks) < MaxChunks
    /\ \E chunk \in ChunkTexts, done \in BOOLEAN :
          /\ chunks' = chunks \o chunk
          /\ IF done
             THEN /\ ending' = "done"
                  /\ streamed' = StreamResult("done", chunks')
                  /\ tpc' = "returned"
             ELSE UNCHANGED <<ending, streamed, tpc>>
    /\ UNCHANGED <<caller, processed>>
    /\ UNCHANGED <<patchVars, applyVars, pipeVars, scanVars, cycleVars>>
    /\ UNCHANGED <<cleanVars, pathVars, editVars, buildVars, diagVars,
                 moreVars>>

\* resp.iter_lines() is exhausted: the server closed the stream
EndOfLines ==
    /\ tpc = "streaming"
    /\ ending' = "eof"
    /\ streamed' = StreamResult("eof", chunks)
    /\ tpc' = "returned"
    /\ UNCHANGED <<chunks, caller, processed>>
    /\ UNCHANGED <<patchVars, applyVars, pipeVars, scanVars, cycleVars>>
    /\ UNCHANGED <<cleanVars, pathVars, editVars, buildVars, diagVars,
                 moreVars>>

\* the request or the stream raises
StreamFails ==
    /\ tpc = "streaming"
    /\ \E how \in StreamFailures :
          /\ ending' = how
          /\ streamed' = StreamResult(how, chunks)
    /\ tpc' = "returned"
    /\ UNCHANGED <<chunks, caller, processed>>
    /\ UNCHANGED <<patchVars, applyVars, pipeVars, scanVars, cycleVars>>
    /\ UNCHANGED <<cleanVars, pathVars, editVars, buildVars, diagVars,
                 moreVars>>

\* auto_fix (builder.py:1603-1604) returns False on an empty text and
\* build_plan (builder.py:2545-2549) goes on to the next step; otherwise
\* the text goes to process_response_files
CallerGoesOn ==
    /\ tpc = "returned"
    /\ IF streamed = <<>>
       THEN /\ tpc' = "dropped"
            /\ UNCHANGED processed
       ELSE /\ tpc' = "processed"
            /\ processed' = streamed
    /\ UNCHANGED <<chunks, ending, streamed, caller>>
    /\ UNCHANGED <<patchVars, applyVars, pipeVars, scanVars, cycleVars>>
    /\ UNCHANGED <<cleanVars, pathVars, editVars, buildVars, diagVars,
                 moreVars>>

StreamNext == ReceiveLine \/ EndOfLines \/ StreamFails \/ CallerGoesOn

\* ------------------------------------------------------------------------
\* builder.py: the step loop of build_plan and the progress files
\* ------------------------------------------------------------------------

MaxSteps == 3

\* there is no .build_progress.json
NoFile == [exists |-> FALSE, plan |-> <<>>, next_step |-> 0, base_dir |-> <<>>]

\* the content of .build_progress.json
ProgressFile(next_step) ==
    [exists |-> TRUE, plan |-> plan_ids, next_step |-> next_step,
     base_dir |-> BaseDir]

\* save_progress that writes the copy in the working directory only
save_progress_cwd_only(files, next_step) ==
    [root |-> files.root,
     cwd |-> IF cwd_differs THEN ProgressFile(next_step) ELSE files.cwd]

\* save_progress (builder.py:2136-2170): the file in the project directory
\* is written always, the one in the working directory if that is another
\* directory
save_progress(files, next_step) ==
    [root |-> ProgressFile(next_step),
     cwd |-> IF cwd_differs THEN ProgressFile(next_step) ELSE files.cwd]

\* a progress file an earlier build may have left behind
StaleFiles ==
    {NoFile,
     [exists |-> TRUE, plan |-> <<1>>, next_step |-> 1, base_dir |-> BaseDir]}

BuildInit ==
    /\ plan_ids \in {[i \in 1..n |-> i] : n \in 1..MaxSteps}
    /\ start_step \in 1..Len(plan_ids)
    /\ build_mode \in {"1", "2", "3"}
    /\ cwd_differs \in BOOLEAN
    /\ progress \in [root : StaleFiles,
                     cwd : IF cwd_differs THEN StaleFiles ELSE {NoFile}]
    /\ bidx = 1
    /\ event = [kind |-> "none", step |-> 0]
    /\ bpc = "loop"
    /\ handled = [i \in 1..Len(plan_ids) |->
                    IF i < start_step THEN "applied" ELSE "none"]

BuildIdle ==
    /\ plan_ids = <<>>
    /\ start_step = 0
    /\ build_mode = "2"
    /\ cwd_differs = FALSE
    /\ progress = [root |-> NoFile, cwd |-> NoFile]
    /\ bidx = 0
    /\ event = [kind |-> "none", step |-> 0]
    /\ bpc = "off"
    /\ handled = <<>>

validate_every_step == build_mode = "1"

\* if step_id < start_step: continue
SkipEarlierStep ==
    /\ bpc = "loop"
    /\ bidx <= Len(plan_ids)
    /\ plan_ids[bidx] < start_step
    /\ bidx' = bidx + 1
    /\ event' = [kind |-> "earlier", step |-> plan_ids[bidx]]
    /\ UNCHANGED <<plan_ids, start_step, build_mode, cwd_differs, progress,
                   bpc, handled>>
    /\ UNCHANGED <<patchVars, applyVars, pipeVars, scanVars, cycleVars>>
    /\ UNCHANGED <<cleanVars, pathVars, editVars, streamVars, diagVars,
                 moreVars>>

\* one round of the loop for a step that is due (builder.py:2490-2631);
\* action: the answer at the prompt; generated: generate_step_code
\* returned a text; passed: what run_validation_pipeline returns
BuildStep ==
    /\ bpc = "loop"
    /\ bidx <= Len(plan_ids)
    /\ plan_ids[bidx] >= start_step
    /\ LET step_id == plan_ids[bidx]
       IN  \E action \in {"g", "s", "q"}, generated \in BOOLEAN,
              passed \in BOOLEAN :
             IF action = "q"
             THEN /\ progress' = save_progress(progress, step_id)
                  /\ event' = [kind |-> "paused", step |-> step_id]
                  /\ bpc' = "paused"
                  /\ UNCHANGED <<bidx, handled>>
             ELSE IF action = "s" \/ ~generated
             THEN /\ event' = [kind |-> "skipped", step |-> step_id]
                  /\ bidx' = bidx + 1
                  /\ handled' = [handled EXCEPT
                                    ![bidx] = IF action = "s" THEN "skipped"
                                              ELSE "generation failed"]
                  /\ UNCHANGED <<progress, bpc>>
             ELSE IF validate_every_step /\ ~passed
             THEN /\ progress' = save_progress(progress, step_id)
                  /\ event' = [kind |-> "paused", step |-> step_id]
                  /\ bpc' = "paused"
                  /\ handled' = [handled EXCEPT ![bidx] = "applied"]
                  /\ UNCHANGED bidx
             ELSE /\ progress' = save_progress(progress, step_id + 1)
                  /\ event' = [kind |-> "completed", step |-> step_id]
                  /\ bidx' = bidx + 1
                  /\ handled' = [handled EXCEPT ![bidx] = "applied"]
                  /\ UNCHANGED bpc
    /\ UNCHANGED <<plan_ids, start_step, build_mode, cwd_differs>>
    /\ UNCHANGED <<patchVars, applyVars, pipeVars, scanVars, cycleVars>>
    /\ UNCHANGED <<cleanVars, pathVars, editVars, streamVars, diagVars,
                 moreVars>>

\* after the loop (builder.py:2633-2668): the final validation, whatever
\* it says, and the removal of both progress files
FinishBuild ==
    /\ bpc = "loop"
    /\ bidx > Len(plan_ids)
    /\ progress' = [root |-> NoFile, cwd |-> NoFile]
    /\ event' = [kind |-> "finished", step |-> 0]
    /\ bpc' = "finished"
    /\ UNCHANGED <<plan_ids, start_step, build_mode, cwd_differs, bidx,
                   handled>>
    /\ UNCHANGED <<patchVars, applyVars, pipeVars, scanVars, cycleVars>>
    /\ UNCHANGED <<cleanVars, pathVars, editVars, streamVars, diagVars,
                 moreVars>>

\* /build --resume after a pause: build_plan is called again with
\* start_step taken from the progress file (builder.py:2173-2200,
\* 2488-2491)
ResumeBuild ==
    /\ bpc = "paused"
    /\ progress.root.exists
    /\ start_step' = progress.root.next_step
    /\ bidx' = 1
    /\ event' = [kind |-> "resumed", step |-> progress.root.next_step]
    /\ bpc' = "loop"
    /\ UNCHANGED <<plan_ids, build_mode, cwd_differs, progress, handled>>
    /\ UNCHANGED <<patchVars, applyVars, pipeVars, scanVars, cycleVars>>
    /\ UNCHANGED <<cleanVars, pathVars, editVars, streamVars, diagVars,
                 moreVars>>

BuildNext == SkipEarlierStep \/ BuildStep \/ FinishBuild \/ ResumeBuild

\* ------------------------------------------------------------------------
\* chat.py: diagnose_test_error
\*
\* The output is the sequence of its lines.  A line is known by what it
\* starts with or holds, and by the module it names; a file below the
\* working directory is the sequence of its path segments, a segment being
\* a name or a name followed by ".py".
\* ------------------------------------------------------------------------

MaxLines == 2

Line(kind, module) == [kind |-> kind, module |-> module]

\* "ModuleNotFoundError: No module named 'M'", "ImportError: cannot import
\* name 'x' from 'M'", and lines that name no module
OutputLines ==
    { Line("ModuleNotFoundError", <<"requests">>),
      Line("ModuleNotFoundError", <<"foo">>),
      Line("ModuleNotFoundError", <<"utils">>),
      Line("ModuleNotFoundError", <<"src", "utils">>),
      Line("ImportError cannot import name", <<"foo">>),
      Line("ImportError cannot import name", <<"requests">>),
      Line("ImportError", <<>>),
      Line("SyntaxError", <<>>),
      Line("IndentationError", <<>>),
      Line("NameError", <<>>),
      Line("AttributeError has no attribute", <<>>),
      Line("AssertionError", <<>>),
      Line("First list contains 2 additional elements", <<>>),
      Line("First extra element", <<>>),
      Line("ConnectionRefusedError", <<>>),
      Line("IntegrityError", <<>>),
      Line("no such table", <<>>),
      Line("KeyError on os.environ", <<>>) }

\* the starts of line that make a line the error line (chat.py:86-89)
ErrorLineKinds ==
    {"ModuleNotFoundError", "ImportError cannot import name", "ImportError",
     "SyntaxError", "IndentationError", "NameError",
     "AttributeError has no attribute"}

\* the names taken for local modules whatever the disk holds
\* (chat.py:130-136)
LocalModuleNames ==
    {"models", "crawler", "app", "config", "utils", "helpers", "views",
     "routes", "schemas", "services", "database", "db", "api", "core",
     "common", "settings", "urls", "forms", "serializers", "tasks",
     "middleware", "decorators", "exceptions", "constants", "enums",
     "managers"}

\* f"{top_level}.py"
PyName(name) == <<name, DOT, "py">>

\* Path.is_file() and Path.is_dir() below the working directory
IsFile(files, loc) == loc \in files

IsDir(files, loc) ==
    \E f \in files : Len(f) > Len(loc) /\ Take(f, Len(loc)) = loc

\* the diagnosis the function starts from (chat.py:72-81)
EmptyDiagnosis ==
    [error_type |-> "unknown", missing_module |-> <<>>,
     fix_guidance |-> "", is_local_import |-> FALSE,
     is_pip_package |-> FALSE]

\* for line in reversed(lines): the last line with one of the starts
ErrorLine(lines) ==
    LET at == {i \in 1..Len(lines) : lines[i].kind \in ErrorLineKinds}
    IN  IF at = {} THEN Line("", <<>>)
        ELSE lines[CHOOSE i \in at : \A j \in at : j <= i]

\* local_indicators (chat.py:122-137) with the lib/ and app/ files left out
LocalIndicators_root_and_src(files, top_level) ==
    \/ IsFile(files, <<PyName(top_level)>>)
    \/ IsDir(files, <<<<top_level>>>>)
    \/ IsFile(files, <<<<"src">>, PyName(top_level)>>)
    \/ IsDir(files, <<<<"src">>, <<top_level>>>>)
    \/ top_level \in LocalModuleNames

\* any(local_indicators) (chat.py:122-139)
LocalIndicators(files, top_level) ==
    \/ IsFile(files, <<PyName(top_level)>>)
    \/ IsDir(files, <<<<top_level>>>>)
    \/ IsFile(files, <<<<"src">>, PyName(top_level)>>)
    \/ IsDir(files, <<<<"src">>, <<top_level>>>>)
    \/ IsFile(files, <<<<"lib">>, PyName(top_level)>>)
    \/ IsFile(files, <<<<"app">>, PyName(top_level)>>)
    \/ top_level \in LocalModuleNames

\* the ModuleNotFoundError branch with the two flags set apart from each
\* other: local by the indicators, pip package by the absence of a file
MissingModule_flags_apart(files, missing) ==
    [error_type |-> "missing_module", missing_module |-> missing,
     fix_guidance |-> "add to requirements.txt",
     is_local_import |-> LocalIndicators(files, missing[1]),
     is_pip_package |-> ~\E f \in files :
                            \E i \in 1..Len(f) :
                                f[i] \in {<<missing[1]>>, PyName(missing[1])}]

\* the ModuleNotFoundError branch (chat.py:97-204)
MissingModule(files, missing) ==
    LET top_level == missing[1]
        in_src == \/ IsFile(files, <<<<"src">>, PyName(top_level)>>)
                  \/ IsDir(files, <<<<"src">>, <<top_level>>>>)
        bare == \/ IsFile(files, <<PyName(top_level)>>)
                \/ IsDir(files, <<<<top_level>>>>)
    IN  IF LocalIndicators(files, top_level)
        THEN [error_type |-> "missing_module", missing_module |-> missing,
              fix_guidance |-> IF in_src /\ ~bare THEN "import with src prefix"
                               ELSE IF bare THEN "check sys.path"
                               ELSE "create the file or fix the spelling",
              is_local_import |-> TRUE, is_pip_package |-> FALSE]
        ELSE [error_type |-> "missing_module", missing_module |-> missing,
              fix_guidance |-> "add to requirements.txt",
              is_local_import |-> FALSE, is_pip_package |-> TRUE]

\* the ImportError: cannot import name branch (chat.py:206-245)
MissingSymbol(files, module) ==
    [error_type |-> "missing_symbol", missing_module |-> module,
     fix_guidance |-> "check what the module exports",
     is_local_import |->
         \/ IsFile(files, <<PyName(module[1])>>)
         \/ IsFile(files, <<<<"src">>, PyName(module[1])>>),
     is_pip_package |-> FALSE]

Holds(lines, kinds) == \E i \in 1..Len(lines) : lines[i].kind \in kinds

Typed(error_type, guidance) ==
    [EmptyDiagnosis EXCEPT !.error_type = error_type,
                           !.fix_guidance = guidance]

diagnose_test_error(lines, files) ==
    LET error_line == ErrorLine(lines)
    IN  IF error_line.kind = "" THEN EmptyDiagnosis
        ELSE IF error_line.kind = "ModuleNotFoundError"
        THEN MissingModule(files, error_line.module)
        ELSE IF error_line.kind = "ImportError cannot import name"
        THEN MissingSymbol(files, error_line.module)
        ELSE IF error_line.kind = "SyntaxError"
        THEN Typed("syntax_error", "fix the syntax error")
        ELSE IF error_line.kind = "IndentationError"
        THEN Typed("indentation_error", "fix the indentation")
        ELSE IF Holds(lines, {"First list contains 2 additional elements",
                              "First extra element"})
        THEN Typed("shared_file_state",
                   "data_file=None, setUp and tearDown")
        ELSE IF Holds(lines, {"ConnectionRefusedError"})
        THEN Typed("connection_refused", "use the test client")
        ELSE IF Holds(lines, {"IntegrityError"})
        THEN Typed("db_integrity_error", "reset the database per test")
        ELSE IF Holds(lines, {"no such table"})
        THEN Typed("db_table_missing", "create the tables in setUp")
        ELSE IF Holds(lines, {"KeyError on os.environ"})
        THEN [Typed("missing_env_var", "set the variable in setUp")
                 EXCEPT !.missing_module = <<"API_KEY">>]
        ELSE IF error_line.kind = "AttributeError has no attribute"
        THEN Typed("attribute_error", "check the version of the package")
        ELSE EmptyDiagnosis

\* the files the working directory may hold
CwdFiles ==
    { <<PyName("foo")>>,
      <<<<"foo">>, PyName("__init__")>>,
      <<<<"src">>, PyName("foo")>>,
      <<<<"src">>, <<"foo">>, PyName("__init__")>>,
      <<<<"lib">>, PyName("foo")>>,
      <<<<"app">>, PyName("foo")>>,
      <<<<"src">>, PyName("utils")>> }

DiagInit ==
    /\ error_output \in SeqUpTo(OutputLines, MaxLines)
    /\ cwd_files \in SUBSET CwdFiles
    /\ diag = EmptyDiagnosis
    /\ dpc = "called"

DiagIdle ==
    /\ error_output = <<>>
    /\ cwd_files = {}
    /\ diag = EmptyDiagnosis
    /\ dpc = "off"

DiagnoseTestError ==
    /\ dpc = "called"
    /\ diag' = diagnose_test_error(error_output, cwd_files)
    /\ dpc' = "returned"
    /\ UNCHANGED <<error_output, cwd_files>>
    /\ UNCHANGED <<patchVars, applyVars, pipeVars, scanVars, cycleVars>>
    /\ UNCHANGED <<cleanVars, pathVars, editVars, streamVars, buildVars,
                 moreVars>>

\* ------------------------------------------------------------------------
\* diff_editor.py / builder.py: the two parsers of a response, driven over
\* responses of up to MaxMarkupTags tags
\* ------------------------------------------------------------------------

\* one search/replace block as it stands in the body of a tag
SRBlock(s, r) ==
    <<SEARCH_MARK, NL>> \o s \o <<NL, DIVIDER, NL>> \o r
        \o <<NL, REPLACE_MARK>>

\* sr_pattern (diff_editor.py:298) at position i of block b: the marker
\* line, the lazy search group up to the first divider line, the lazy
\* replace group up to the first closing marker
Dividers(b, i) ==
    {j \in (i + 2)..(Len(b) - 2) :
        b[j] = NL /\ b[j + 1] = DIVIDER /\ b[j + 2] = NL}

Closers(b, j) ==
    {k \in (j + 3)..(Len(b) - 1) : b[k] = NL /\ b[k + 1] = REPLACE_MARK}

MatchesAt(b, i) ==
    /\ i + 1 <= Len(b)
    /\ b[i] = SEARCH_MARK
    /\ b[i + 1] = NL
    /\ Dividers(b, i) # {}
    /\ Closers(b, Min(Dividers(b, i))) # {}

RECURSIVE SRMatches(_, _)
\* re.findall(sr_pattern, block, re.DOTALL) from position from on
SRMatches(b, from) ==
    LET starts == {i \in from..Len(b) : MatchesAt(b, i)}
    IN  IF starts = {} THEN <<>>
        ELSE LET i == Min(starts)
                 j == Min(Dividers(b, i))
                 k == Min(Closers(b, j))
             IN  <<[search |-> SubSeq(b, i + 2, j - 1),
                    replace |-> SubSeq(b, j + 3, k - 1)]>>
                 \o SRMatches(b, k + 2)

RECURSIVE PairsToEdits(_, _)
\* diff_editor.py:301-318: the pairs of one <edit> tag, a pair whose search
\* text is blank left out
PairsToEdits(filepath, pairs) ==
    IF pairs = <<>> THEN <<>>
    ELSE LET s == clean_code_block(Head(pairs).search)
             r == clean_code_block(Head(pairs).replace)
         IN  (IF Strip(s) = <<>> THEN <<>>
              ELSE <<SearchReplace(filepath, s, r)>>)
             \o PairsToEdits(filepath, Tail(pairs))

RECURSIVE EditTagEdits(_)
\* diff_editor.py:289-333 (format 1): the edits of the <edit> tags in text
\* order; found_paths is filled and never read in this loop
EditTagEdits(tags) ==
    IF tags = <<>> THEN <<>>
    ELSE LET t == Head(tags)
             filepath == _normalize_edit_path(t.path)
             block == Strip(t.body)
             sr_matches == SRMatches(block, 1)
             text == clean_code_block(block)
         IN  (IF t.kind # "edit" \/ filepath = <<>> THEN <<>>
              ELSE IF sr_matches # <<>>
              THEN PairsToEdits(filepath, sr_matches)
              ELSE IF Strip(text) # <<>>
              THEN <<FullReplace(filepath, text)>>
              ELSE <<>>)
             \o EditTagEdits(Tail(tags))

MaxMarkupTags == 3

TwoBlocks == SRBlock(<<"a">>, <<"b">>) \o <<NL>> \o SRBlock(<<"b">>, <<"c">>)

\* <file> and <edit> tags for two files, a path under two spellings, edit
\* tags of one and of two search/replace blocks
MarkupTags ==
    { Tag("file", <<FileName>>, NewText),
      Tag("file", <<DOT, SLASH, FileName>>, <<"c">>),
      Tag("file", <<OtherName>>, NewText),
      Tag("edit", <<FileName>>, Marked),
      Tag("edit", <<DOT, SLASH, FileName>>, TwoBlocks),
      Tag("edit", <<OtherName>>, TwoBlocks) }

ParseInit ==
    /\ markup \in SeqUpTo(MarkupTags, MaxMarkupTags)
    /\ parse_out = [raised |-> FALSE, edit_blocks |-> <<>>,
                    edits |-> <<>>, new_files |-> <<>>]
    /\ mpc = "called"

ParseIdle ==
    /\ markup = <<>>
    /\ parse_out = [raised |-> FALSE, edit_blocks |-> <<>>,
                    edits |-> <<>>, new_files |-> <<>>]
    /\ mpc = "off"

\* process_response_files, builder.py:968-1004: parse_edit_blocks inside
\* its try, then parse_files_from_response; edits: the local list of
\* parse_edit_blocks when it returned or raised
ParseResponse ==
    /\ mpc = "called"
    /\ mpc' = "parsed"
    /\ parse_out' = [raised |-> parse_edit_blocks(markup).raised,
                     edit_blocks |-> EditBlocksOf(markup),
                     edits |-> EditTagEdits(markup),
                     new_files |-> parse_files_from_response(markup).files]
    /\ UNCHANGED markup
    /\ UNCHANGED <<patchVars, applyVars, pipeVars, scanVars, cycleVars>>
    /\ UNCHANGED <<cleanVars, pathVars, editVars, streamVars, buildVars,
                   diagVars, normVars, undoVars>>

\* ------------------------------------------------------------------------
\* normalize_path applied to a raw path, and to its own result
\* ------------------------------------------------------------------------

MaxPathLen == 5

PathChars == {DOT, SLASH, BACKSLASH, "a"}

NormInit ==
    /\ npath \in SeqUpTo(PathChars, MaxPathLen)
    /\ normed = [once |-> <<>>, twice |-> <<>>]
    /\ npc = "called"

NormIdle ==
    /\ npath = <<>>
    /\ normed = [once |-> <<>>, twice |-> <<>>]
    /\ npc = "off"

NormalizePath ==
    /\ npc = "called"
    /\ npc' = "once"
    /\ normed' = [normed EXCEPT !.once = normalize_path(npath)]
    /\ UNCHANGED npath
    /\ UNCHANGED <<patchVars, applyVars, pipeVars, scanVars, cycleVars>>
    /\ UNCHANGED <<cleanVars, pathVars, editVars, streamVars, buildVars,
                   diagVars, parseVars, undoVars>>

NormalizeAgain ==
    /\ npc = "once"
    /\ npc' = "twice"
    /\ normed' = [normed EXCEPT !.twice = normalize_path(normed.once)]
    /\ UNCHANGED npath
    /\ UNCHANGED <<patchVars, applyVars, pipeVars, scanVars, cycleVars>>
    /\ UNCHANGED <<cleanVars, pathVars, editVars, streamVars, buildVars,
                   diagVars, parseVars, undoVars>>

NormNext == NormalizePath \/ NormalizeAgain

\* ------------------------------------------------------------------------
\* undo.py: the UndoManager of a chat session
\*
\* A message is its text; a conversation is a sequence of messages.
\* ------------------------------------------------------------------------

\* the longest conversation, and the most snapshots kept
MaxMessages == 4

\* UndoManager(max_history=50)
_max_history == 50

\* the texts of the messages of a conversation, in order
MessageTexts == <<"m1", "m2", "m3", "m4", "m5", "m6">>

NoLog == [ops |-> <<>>, ret |-> None, saved |-> <<>>, away |-> <<>>]

\* the last three operations
Logged(before, op) ==
    LET all == Append(before, op)
    IN  IF Len(all) > 3 THEN Tail(all) ELSE all

\* a session starts with no message or with one
UndoInit ==
    /\ _history = <<>>
    /\ _redo_stack = <<>>
    /\ messages \in {<<>>, <<MessageTexts[1]>>}
    /\ ulog = NoLog

UndoIdle ==
    /\ _history = <<>>
    /\ _redo_stack = <<>>
    /\ messages = <<"off">>
    /\ ulog = NoLog

\* save_state (undo.py:87-116) as a function of the manager's two lists
save_state(history, redo_stack, msgs) ==
    IF msgs = <<>> THEN [history |-> history, redo_stack |-> redo_stack]
    ELSE LET appended == Append(history, msgs)
         IN  [history |-> IF Len(appended) > _max_history
                          THEN Drop(appended, Len(appended) - _max_history)
                          ELSE appended,
              redo_stack |-> <<>>]

\* undo (undo.py:118-148)
undo(history, redo_stack) ==
    IF history = <<>>
    THEN [history |-> history, redo_stack |-> redo_stack, ret |-> None]
    ELSE LET popped == Take(history, Len(history) - 1)
         IN  IF popped # <<>>
             THEN [history |-> popped,
                   redo_stack |-> Append(redo_stack, history[Len(history)]),
                   ret |-> popped[Len(popped)]]
             ELSE [history |-> history, redo_stack |-> redo_stack,
                   ret |-> None]

\* redo (undo.py:150-169)
redo(history, redo_stack) ==
    IF redo_stack = <<>>
    THEN [history |-> history, redo_stack |-> redo_stack, ret |-> None]
    ELSE [history |-> Append(history, redo_stack[Len(redo_stack)]),
          redo_stack |-> Take(redo_stack, Len(redo_stack) - 1),
          ret |-> redo_stack[Len(redo_stack)]]

\* ChatSession.send (chat.py:1246-1261 and on): the state is saved, then
\* the conversation grows by a message
Send ==
    /\ messages # <<"off">>
    /\ Len(messages) < MaxMessages
    /\ Len(_history) < MaxMessages
    /\ \E s \in {save_state(_history, _redo_stack, messages)} :
          /\ _history' = s.history
          /\ _redo_stack' = s.redo_stack
    /\ messages' = Append(messages, MessageTexts[Len(messages) + 1])
    /\ ulog' = [ulog EXCEPT
                   !.ops = Logged(@, IF messages = <<>> THEN "send_unsaved"
                                     ELSE "send"),
                   !.ret = None,
                   !.saved = messages]
    /\ UNCHANGED <<patchVars, applyVars, pipeVars, scanVars, cycleVars>>
    /\ UNCHANGED <<cleanVars, pathVars, editVars, streamVars, buildVars,
                   diagVars, parseVars, normVars>>

\* the /undo command (cli.py:538-545)
UndoCommand ==
    /\ messages # <<"off">>
    /\ \E u \in {undo(_history, _redo_stack)} :
          /\ _history' = u.history
          /\ _redo_stack' = u.redo_stack
          /\ messages' = IF u.ret # None /\ u.ret # <<>>
                         THEN u.ret ELSE messages
          /\ ulog' = [ulog EXCEPT !.ops = Logged(@, "undo"),
                                  !.ret = u.ret,
                                  !.away = messages]
    /\ UNCHANGED <<patchVars, applyVars, pipeVars, scanVars, cycleVars>>
    /\ UNCHANGED <<cleanVars, pathVars, editVars, streamVars, buildVars,
                   diagVars, parseVars, normVars>>

\* the /redo command (cli.py:547-553)
RedoCommand ==
    /\ messages # <<"off">>
    /\ \E r \in {redo(_history, _redo_stack)} :
          /\ _history' = r.history
          /\ _redo_stack' = r.redo_stack
          /\ messages' = IF r.ret # None /\ r.ret # <<>>
                         THEN r.ret ELSE messages
          /\ ulog' = [ulog EXCEPT !.ops = Logged(@, "redo"),
                                  !.ret = r.ret]
    /\ UNCHANGED <<patchVars, applyVars, pipeVars, scanVars, cycleVars>>
    /\ UNCHANGED <<cleanVars, pathVars, editVars, streamVars, buildVars,
                   diagVars, parseVars, normVars>>

UndoNext == Send \/ UndoCommand \/ RedoCommand

\* ------------------------------------------------------------------------
\* Specifications
\* ------------------------------------------------------------------------

\* the functions driven on their own, each idle unless its flag is set
IdleTools(clean, paths, edits, stream, build, diagnose) ==
    /\ clean \/ CleanIdle
    /\ paths \/ PathIdle
    /\ edits \/ EditsIdle
    /\ stream \/ StreamIdle
    /\ build \/ BuildIdle
    /\ diagnose \/ DiagIdle

\* the parts added last, each idle unless it is named
IdleMore(active) ==
    /\ "parse" \in active \/ ParseIdle
    /\ "norm" \in active \/ NormIdle
    /\ "undo" \in active \/ UndoIdle

\* the patcher on its own
Idle(patch, apply, pipe, scan, cycles) ==
    /\ patch \/ PatchIdle
    /\ apply \/ ApplyIdle
    /\ pipe \/ PipeIdle
    /\ scan \/ ScanIdle
    /\ cycles \/ CyclesIdle

InitPatch ==
    /\ Idle(TRUE, FALSE, FALSE, FALSE, FALSE)
    /\ IdleTools(FALSE, FALSE, FALSE, FALSE, FALSE, FALSE)
    /\ IdleMore({})
    /\ PatchInit

SpecPatch == InitPatch /\ [][ApplySearchReplace]_vars

\* the patcher over indented lines
InitReindent ==
    /\ Idle(TRUE, FALSE, FALSE, FALSE, FALSE)
    /\ IdleTools(FALSE, FALSE, FALSE, FALSE, FALSE, FALSE)
    /\ IdleMore({})
    /\ ReindentInit

SpecReindent == InitReindent /\ [][ApplySearchReplace]_vars

\* responses applied to the project directory
InitApply ==
    /\ Idle(FALSE, TRUE, FALSE, FALSE, FALSE)
    /\ IdleTools(FALSE, FALSE, FALSE, FALSE, FALSE, FALSE)
    /\ IdleMore({})
    /\ ApplyInit

SpecApply == InitApply /\ [][ApplyNext]_vars

\* the validation pipeline over every project shape and every outcome of
\* its collaborators
InitPipeline ==
    /\ Idle(FALSE, FALSE, TRUE, FALSE, FALSE)
    /\ IdleTools(FALSE, FALSE, FALSE, FALSE, FALSE, FALSE)
    /\ IdleMore({})
    /\ PipeInit

SpecPipeline == InitPipeline /\ [][PipeNext]_vars

\* run_validation_pipeline is sequential code: as long as every call it
\* makes returns, its next step is taken
SpecPipelineFair == SpecPipeline /\ WF_vars(PipeNext)

\* the scanner over small Python projects
InitScan ==
    /\ Idle(FALSE, FALSE, FALSE, TRUE, FALSE)
    /\ IdleTools(FALSE, FALSE, FALSE, FALSE, FALSE, FALSE)
    /\ IdleMore({})
    /\ ScanInit

SpecScan == InitScan /\ [][ScanProject]_vars

\* the scanner over projects of files that are and are not orphan
\* candidates
InitOrphans ==
    /\ Idle(FALSE, FALSE, FALSE, TRUE, FALSE)
    /\ IdleTools(FALSE, FALSE, FALSE, FALSE, FALSE, FALSE)
    /\ IdleMore({})
    /\ OrphanInit

SpecOrphans == InitOrphans /\ [][ScanProject]_vars

\* the cycle search over every graph on Nodes and every order of its keys
InitCycles ==
    /\ Idle(FALSE, FALSE, FALSE, FALSE, TRUE)
    /\ IdleTools(FALSE, FALSE, FALSE, FALSE, FALSE, FALSE)
    /\ IdleMore({})
    /\ CyclesInit

SpecCycles == InitCycles /\ [][DetectCircularImports]_vars

\* clean_file_content over every short text, twice in a row
InitClean ==
    /\ Idle(FALSE, FALSE, FALSE, FALSE, FALSE)
    /\ IdleTools(TRUE, FALSE, FALSE, FALSE, FALSE, FALSE)
    /\ IdleMore({})
    /\ CleanInit

SpecClean == InitClean /\ [][CleanNext]_vars

\* validate_filepath over every path of up to MaxSegments segments
InitPaths ==
    /\ Idle(FALSE, FALSE, FALSE, FALSE, FALSE)
    /\ IdleTools(FALSE, TRUE, FALSE, FALSE, FALSE, FALSE)
    /\ IdleMore({})
    /\ PathInit

SpecPaths == InitPaths /\ [][ValidateFilepath]_vars

\* apply_edits over every list of up to MaxEdits edits
InitEdits ==
    /\ Idle(FALSE, FALSE, FALSE, FALSE, FALSE)
    /\ IdleTools(FALSE, FALSE, TRUE, FALSE, FALSE, FALSE)
    /\ IdleMore({})
    /\ EditsInit

SpecEdits == InitEdits /\ [][ApplyEdit]_vars

\* one call of _stream_llm_response and what its caller does with the text
InitStream ==
    /\ Idle(FALSE, FALSE, FALSE, FALSE, FALSE)
    /\ IdleTools(FALSE, FALSE, FALSE, TRUE, FALSE, FALSE)
    /\ IdleMore({})
    /\ StreamInit

SpecStream == InitStream /\ [][StreamNext]_vars

\* build_plan over every short plan, start step, build mode and answer
InitBuild ==
    /\ Idle(FALSE, FALSE, FALSE, FALSE, FALSE)
    /\ IdleTools(FALSE, FALSE, FALSE, FALSE, TRUE, FALSE)
    /\ IdleMore({})
    /\ BuildInit

SpecBuild == InitBuild /\ [][BuildNext]_vars

\* diagnose_test_error over every short output and every working directory
InitDiag ==
    /\ Idle(FALSE, FALSE, FALSE, FALSE, FALSE)
    /\ IdleTools(FALSE, FALSE, FALSE, FALSE, FALSE, TRUE)
    /\ IdleMore({})
    /\ DiagInit

SpecDiag == InitDiag /\ [][DiagnoseTestError]_vars

\* both parsers over every response of up to MaxMarkupTags tags
InitParse ==
    /\ Idle(FALSE, FALSE, FALSE, FALSE, FALSE)
    /\ IdleTools(FALSE, FALSE, FALSE, FALSE, FALSE, FALSE)
    /\ IdleMore({"parse"})
    /\ ParseInit

SpecParse == InitParse /\ [][ParseResponse]_vars

\* normalize_path over every short path
InitNorm ==
    /\ Idle(FALSE, FALSE, FALSE, FALSE, FALSE)
    /\ IdleTools(FALSE, FALSE, FALSE, FALSE, FALSE, FALSE)
    /\ IdleMore({"norm"})
    /\ NormInit

SpecNorm == InitNorm /\ [][NormNext]_vars

\* a chat session sending, undoing and redoing
InitUndo ==
    /\ Idle(FALSE, FALSE, FALSE, FALSE, FALSE)
    /\ IdleTools(FALSE, FALSE, FALSE, FALSE, FALSE, FALSE)
    /\ IdleMore({"undo"})
    /\ UndoInit

SpecUndo == InitUndo /\ [][UndoNext]_vars

\* ------------------------------------------------------------------------
\* Properties of applied responses (checked under SpecApply)
\* ------------------------------------------------------------------------

C3_ManifestUntouchedByLocalFix ==
    (apc = "done" /\ local_fix) => ReadText(ManifestLoc) = manifest_before

\* C14: when a <file> block of a response holds SEARCH/REPLACE marker
\* lines, no file that was written holds a marker line.
C14_NoMarkerLinesWritten ==
    \A loc \in written :
        \A k \in 1..Len(fs[loc]) : fs[loc][k] \notin Markers

\* ------------------------------------------------------------------------
\* Properties of the validation pipeline (checked under SpecPipeline and
\* SpecPipelineFair)
\* ------------------------------------------------------------------------

\* C4: the pipeline goes on to the next stage only when the check of the
\* stage established success, or the operator answered continue at the
\* decision prompt; and when the operator answers quit the pipeline returns
\* False with every later stage still pending.
C4_AdvanceOnlyWhenPassedOrContinued ==
    /\ (ended.stage # 0 /\ si > ended.stage) =>
           (ended.check = "ok" \/ ended.prompt = "c")
    /\ ended.prompt = "q" =>
           /\ ret = "False"
           /\ \A j \in (ended.stage + 1)..Len(stages) : status[j] = "Pending"

\* C5 as stated: for every stage the check runs at most MAX_FIX_ATTEMPTS
\* times and auto_fix is called at most MAX_FIX_ATTEMPTS - 1 times.
C5_CheckRunsWithinAttempts ==
    runs <= MAX_FIX_ATTEMPTS /\ fixes <= MAX_FIX_ATTEMPTS - 1

\* C5 amended: for every stage the inner loop makes at most
\* MAX_FIX_ATTEMPTS attempts and auto_fix is called at most
\* MAX_FIX_ATTEMPTS - 1 times; the check runs at most MAX_FIX_ATTEMPTS times
\* for the two scan stages and at most 2 * MAX_FIX_ATTEMPTS - 1 times for a
\* command stage (once more in every attempt but the final one, after a
\* reinstall of the dependencies); and the pipeline always returns.
C5_BoundedRetriesAndTermination ==
    /\ [](/\ attempt <= MAX_FIX_ATTEMPTS
          /\ fixes <= MAX_FIX_ATTEMPTS - 1
          /\ runs <= 2 * MAX_FIX_ATTEMPTS - 1
          /\ (qpc \in {"attempt", "decide"} /\ stages[si].type # "command")
                => runs <= MAX_FIX_ATTEMPTS)
    /\ <>(qpc = "returned")

\* a command stage has used up its attempts with the command run twice in
\* every attempt but the final one, and auto_fix called in each of those
C5_Witness ==
    /\ qpc = "decide"
    /\ stages[si].type = "command"
    /\ runs = 2 * MAX_FIX_ATTEMPTS - 1
    /\ fixes = MAX_FIX_ATTEMPTS - 1

\* the place of a stage in the order of the pipeline
StageRank(name) ==
    CASE name = "Cross-Reference Check" -> 1
      [] name = "Syntax Check" -> 2
      [] name \in {"Create Virtualenv", "Install Dependencies",
                   "Install Step"} -> 3
      [] name = "Build" -> 4
      [] name = "Lint" -> 5
      [] name = "Tests" -> 6

\* C6: the stages run in the order cross-reference check, syntax check,
\* dependency install (only with a manifest file), build (only with a build
\* command), lint (only for rust and go), tests (only with a test
\* directory); a stage goes from Pending to Running and from Running to
\* Passed or Failed, and is pending as long as an earlier stage has not
\* reached Passed or Failed.
C6_StagesInOrder ==
    /\ [](/\ Len(stages) >= 2
          /\ StageRank(stages[1].name) = 1
          /\ StageRank(stages[2].name) = 2
          /\ \A i \in 1..Len(stages), j \in 1..Len(stages) :
                i < j =>
                  /\ StageRank(stages[i].name) <= StageRank(stages[j].name)
                  /\ StageRank(stages[i].name) = StageRank(stages[j].name)
                        => StageRank(stages[i].name) = 3
                  /\ status[j] # "Pending"
                        => status[i] \in {"Passed", "Failed"}
          /\ \A i \in 1..Len(stages) :
                /\ StageRank(stages[i].name) = 3 => project.dep_file
                /\ StageRank(stages[i].name) = 4 => project.build_cmd
                /\ StageRank(stages[i].name) = 5
                      => project.type \in {"rust", "go"}
                /\ StageRank(stages[i].name) = 6 => project.test_dir)
    /\ [][\A i \in 1..Len(stages) :
            status'[i] # status[i] =>
               \/ status[i] = "Pending" /\ status'[i] = "Running"
               \/ status[i] = "Running"
                    /\ status'[i] \in {"Passed", "Failed"}]_vars

\* a project with every kind of stage has reached its tests after one
\* earlier stage passed and another failed and was continued
C6_Witness ==
    /\ \A r \in 1..6 : \E i \in 1..Len(stages) : StageRank(stages[i].name) = r
    /\ status[Len(stages)] = "Running"
    /\ \E i \in 1..Len(stages) : status[i] = "Passed"
    /\ \E i \in 1..Len(stages) : status[i] = "Failed"

\* ------------------------------------------------------------------------
\* Properties of the scanner (checked under SpecScan and SpecCycles)
\* ------------------------------------------------------------------------

\* the top-level modules a file imports that are neither external nor
\* found anywhere in the project
MissingModules(f) ==
    {ctx.files[f].imports[k][1] : k \in
        {k \in 1..Len(ctx.files[f].imports) :
            /\ ~_is_external_python(ctx.files[f].imports[k])
            /\ resolve_python_import(ctx.files[f].imports[k], ctx.files)
                   = NoPath}}

\* C7: after a scan, for every file and every module it imports that is
\* neither external nor present in the project, the issues hold exactly one
\* error-severity missing_import issue for that file and module, however
\* many names are imported from the module.
C7_OneMissingImportPerModule ==
    spc = "scanned" =>
        \A f \in DOMAIN ctx.files : \A top \in MissingModules(f) :
            Cardinality({k \in 1..Len(ctx.issues) :
                            /\ ctx.issues[k].type = "missing_import"
                            /\ ctx.issues[k].severity = "error"
                            /\ ctx.issues[k].file = f
                            /\ ctx.issues[k].import # <<>>
                            /\ ctx.issues[k].import[1] = top}) = 1

\* the nodes a step along an edge of g leads to from the nodes in from
Successors(g, from) ==
    UNION {{g[n][k] : k \in 1..Len(g[n])} : n \in from \cap DOMAIN g}

RECURSIVE ReachedFrom(_, _, _)
\* the nodes reached from the frontier, reached included
ReachedFrom(g, frontier, reached) ==
    IF frontier \subseteq reached THEN reached
    ELSE ReachedFrom(g, Successors(g, frontier), reached \cup frontier)

\* some node of g is reached from itself along one edge or more
HasCycle(g) ==
    \E n \in DOMAIN g : n \in ReachedFrom(g, Successors(g, {n}), {})

\* C8: whenever the dependency graph built by a scan has an import cycle,
\* the issues of the returned context hold an error-severity
\* circular_import issue.
C8_ScanReportsCycles ==
    (spc = "scanned" /\ HasCycle(ctx.dependency_graph)) =>
        \E k \in 1..Len(ctx.issues) :
            /\ ctx.issues[k].type = "circular_import"
            /\ ctx.issues[k].severity = "error"

Triangle ==
    [n \in Nodes |->
        IF n = "A" THEN <<"B">> ELSE IF n = "B" THEN <<"C">> ELSE <<"A">>]

\* C9: for every graph and every order of its keys, detect_circular_imports
\* returns an issue if and only if the graph has a cycle; every issue is an
\* error-severity circular_import issue naming a cycle of the graph; for
\* every node set of a cycle the search came upon there is exactly one
\* issue; and the graph A -> B -> C -> A yields exactly one issue naming A,
\* B and C.
C9_OneIssuePerCycleNodeSet ==
    cpc = "returned" =>
        /\ (cyc.issues # <<>>) <=> HasCycle(dep_graph)
        /\ \A k \in 1..Len(cyc.issues) :
              LET issue == cyc.issues[k]
              IN  /\ issue.type = "circular_import"
                  /\ issue.severity = "error"
                  /\ Len(issue.cycle) >= 2
                  /\ issue.cycle[1] = issue.cycle[Len(issue.cycle)]
                  /\ \A m \in 1..(Len(issue.cycle) - 1) :
                        InSeq(issue.cycle[m + 1], dep_graph[issue.cycle[m]])
        /\ \A j \in 1..Len(cyc.found) :
              Cardinality({k \in 1..Len(cyc.issues) :
                              NodesOf(cyc.issues[k].cycle)
                                  = NodesOf(cyc.found[j])}) = 1
        /\ dep_graph = Triangle =>
              /\ Len(cyc.issues) = 1
              /\ NodesOf(cyc.issues[1].cycle) = {"A", "B", "C"}

\* the search came upon one cycle twice and reported it once, and reported
\* a second cycle on another node set; one of the cycles has several nodes
C9_Witness ==
    /\ cpc = "returned"
    /\ Len(cyc.issues) >= 2
    /\ Len(cyc.found) > Len(cyc.issues)
    /\ \E k \in 1..Len(cyc.issues) :
          Cardinality(NodesOf(cyc.issues[k].cycle)) >= 2

\* ------------------------------------------------------------------------
\* Properties of the patcher (checked under SpecPatch)
\* ------------------------------------------------------------------------

\* C2: when the search text occurs two or more times in the content,
\* apply_search_replace returns None (it never picks one occurrence).
C2_MultipleOccurrencesNotFound ==
    (ppc = "returned" /\ Count(content, search) >= 2) => result = None

\* C10: when the search text occurs exactly once in the content as an exact
\* substring, the result is the content with exactly that occurrence replaced
\* by the replacement and every other character unchanged.
C10_ExactSingleOccurrenceReplaced ==
    (ppc = "returned" /\ Cardinality(Occurrences(content, search)) = 1) =>
        \E i \in Occurrences(content, search) :
            result = Take(content, i - 1) \o replace
                        \o Drop(content, i - 1 + Len(search))

\* a single exact occurrence was replaced where the trailing-whitespace
\* strategy, had it run, would have produced a different text
C10_Witness ==
    /\ ppc = "returned"
    /\ Cardinality(Occurrences(content, search)) = 1
    /\ result # None
    /\ result # content
    /\ Contains(_normalize_trailing_whitespace(content),
                _normalize_trailing_whitespace(search))
    /\ TrailingMatch(content, search, replace) # result

\* the line of content_norm on which the match of strategy 2 starts, and the
\* line on which its last character lies (one less than the first line for
\* an empty match); lines are counted from 0
MatchIdx ==
    Index(_normalize_trailing_whitespace(content),
          _normalize_trailing_whitespace(search))

MatchFirstLine ==
    CountNL(Take(_normalize_trailing_whitespace(content), MatchIdx))

MatchLastLine ==
    LET n == Len(_normalize_trailing_whitespace(search))
    IN  IF n = 0 THEN MatchFirstLine - 1
        ELSE CountNL(Take(_normalize_trailing_whitespace(content),
                          MatchIdx + n - 1))

\* C11: when the search text is not in the content but is in it once
\* trailing whitespace is stripped from every line of both (and something
\* of the search is left to match), the call
\* succeeds and every line of the content before the first matched line and
\* every line after the last matched line is in the result, unchanged and
\* in its place (the lines before open the result, the lines after end it).
C11_TrailingMatchKeepsOtherLines ==
    (/\ ppc = "returned"
     /\ ~Contains(content, search)
     /\ _normalize_trailing_whitespace(search) # <<>>
     /\ Contains(_normalize_trailing_whitespace(content),
                 _normalize_trailing_whitespace(search))) =>
        /\ result # None
        /\ LET lines == Split(content)
               before == Slice(lines, 0, MatchFirstLine)
               after == Slice(lines, MatchLastLine + 1, Len(lines))
               res == Split(result)
           IN  /\ Len(res) >= Len(before) + Len(after)
               /\ Take(res, Len(before)) = before
               /\ Drop(res, Len(res) - Len(after)) = after

\* ------------------------------------------------------------------------
\* Properties of content cleaning (checked under SpecClean)
\* ------------------------------------------------------------------------

\* C12: for every text and every path clean_file_content returns a text,
\* and applied to that text with the same path it returns the same text
\* again.
C12_CleaningIsIdempotent ==
    /\ kpc # "raised"
    /\ kpc = "twice" => recleaned = cleaned

\* ------------------------------------------------------------------------
\* Properties of path validation (checked under SpecPaths)
\* ------------------------------------------------------------------------

RECURSIVE Cancel(_)
\* the segments of an absolute path in canonical form: empty segments and
\* "." are dropped, and each ".." is cancelled against the name before it
\* (the parent of the filesystem root is the root)
Cancel(segs) ==
    LET kept == SelectSeq(segs, LAMBDA s : s # <<>> /\ s # <<DOT>>)
        ups == {i \in 1..Len(kept) : kept[i] = <<DOT, DOT>>}
    IN  IF ups = {} THEN kept
        ELSE LET i == Min(ups)
             IN  IF i = 1 THEN Cancel(Tail(kept))
                 ELSE Cancel(Take(kept, i - 2) \o Drop(kept, i))

\* the resolved form of the path handed in is the root or lies below it
ResolvedInsideRoot ==
    LET absolute == IF vpath # <<>> /\ vpath[1] = SLASH
                    THEN SplitOn(vpath, SLASH)
                    ELSE vroot \o SplitOn(vpath, SLASH)
        canon == Cancel(absolute)
    IN  /\ Len(canon) >= Len(vroot)
        /\ \A i \in 1..Len(vroot) : canon[i] = vroot[i]

EtcPasswd == JoinOn(<<<<DOT, DOT>>, <<DOT, DOT>>, <<"etc">>, <<"passwd">>>>, SLASH)

\* C13: validate_filepath returns False for the empty and for the blank
\* path and for every path, whatever the number of ".." segments in it,
\* whose resolved form is not inside the resolved root; it returns True
\* only for a path whose resolved form is inside the root; and
\* "../../etc/passwd" against /proj is refused.
C13_OnlyPathsInsideRootAreValid ==
    vpc = "returned" =>
        /\ (vpath = <<>> \/ Strip(vpath) = <<>>) => ~valid
        /\ ~ResolvedInsideRoot => ~valid
        /\ valid => ResolvedInsideRoot
        /\ (vpath = EtcPasswd /\ vroot = << <<"proj">> >>) => ~valid

\* a path that goes down into a directory and then up twice, out of the
\* root, was refused
C13_Witness ==
    /\ vpc = "returned"
    /\ vroot = << <<"proj">> >>
    /\ vpath = JoinOn(<<<<"etc">>, <<DOT, DOT>>, <<DOT, DOT>>, <<"passwd">>>>, SLASH)
    /\ ~ResolvedInsideRoot
    /\ ~valid

\* ------------------------------------------------------------------------
\* Properties of apply_edits (checked under SpecEdits)
\* ------------------------------------------------------------------------

\* C15: whichever edits of a list fail, apply_edits takes up every edit
\* exactly once, in the order of the list, and returns one (path, success)
\* result per edit.
C15_EveryEditAttemptedOnce ==
    epc \in {"returned", "raised"} =>
        /\ epc = "returned"
        /\ tried = [i \in 1..Len(ops) |-> i]
        /\ Len(edisk.results) = Len(ops)
        /\ \A i \in 1..Len(ops) : edisk.results[i].path = ops[i].path

\* ------------------------------------------------------------------------
\* Properties of the LLM stream (checked under SpecStream)
\* ------------------------------------------------------------------------

\* C16: when the stream fails, whatever was received before,
\* _stream_llm_response returns the empty text and its caller hands nothing
\* to process_response_files; and a text is handed to
\* process_response_files only after the stream ended without a failure (a
\* line with done set, or the end of the lines), and it is then the whole
\* text received.
C16_FailedStreamIsDropped ==
    /\ (tpc \in {"returned", "processed", "dropped"}
           /\ ending \in StreamFailures) =>
          /\ streamed = <<>>
          /\ processed = NoText
          /\ tpc # "processed"
    /\ processed # NoText =>
          /\ ending \in {"done", "eof"}
          /\ processed = chunks

\* the stream failed after text had been received and the caller dropped
\* the call
C16_Witness ==
    /\ tpc = "dropped"
    /\ ending = "timeout"
    /\ Len(chunks) >= 2
    /\ streamed = <<>>

\* ------------------------------------------------------------------------
\* Properties of the build loop (checked under SpecBuild)
\* ------------------------------------------------------------------------

C18_LocalAndPipExclusive ==
    dpc = "returned" =>
        /\ ~(diag.is_local_import /\ diag.is_pip_package)
        /\ diag.error_type = "missing_module" =>
              (diag.is_local_import # diag.is_pip_package)

\* a module with a name taken for local and no file on disk was diagnosed
\* as a local import
C18_Witness ==
    /\ dpc = "returned"
    /\ diag.error_type = "missing_module"
    /\ diag.missing_module = <<"utils">>
    /\ cwd_files = {}
    /\ diag.is_local_import
    /\ ~diag.is_pip_package

\* the output's error line names a missing module
MissingModuleLine ==
    /\ dpc = "returned"
    /\ ErrorLine(error_output).kind = "ModuleNotFoundError"

\* the top-level segment of the missing module
MissingTop == ErrorLine(error_output).module[1]

\* a file named after the top-level segment lies in one of the directories
\* given, or a directory of that name lies in the root or in src/
FoundUnder(dirs) ==
    \/ \E d \in dirs : (d \o <<PyName(MissingTop)>>) \in cwd_files
    \/ \E d \in {<<>>, <<<<"src">>>>} :
          \E f \in cwd_files :
              /\ Len(f) > Len(d) + 1
              /\ Take(f, Len(d)) = d
              /\ f[Len(d) + 1] = <<MissingTop>>

C20_ListMismatchIsSharedFileState ==
    (/\ dpc = "returned"
     /\ Holds(error_output, {"First list contains 2 additional elements",
                              "First extra element"})
     /\ ~Holds(error_output, {"ModuleNotFoundError",
                               "ImportError cannot import name",
                               "ImportError", "SyntaxError",
                               "IndentationError"})) =>
        /\ diag.error_type = "shared_file_state"
        /\ diag.fix_guidance = "data_file=None, setUp and tearDown"

\* ------------------------------------------------------------------------
\* Properties of the parsers (checked under SpecParse)
\* ------------------------------------------------------------------------

\* C21: a response of one <file> tag and one <edit> tag with two
\* search/replace blocks is parsed by parse_edit_blocks into exactly three
\* operations, the full_replace of the file first and the two
\* search_replace after it in their order, each with its normalized path.
C21_FileAndEditGiveThreeOperations ==
    mpc = "parsed" =>
        \A f, e \in 1..Len(markup) :
            (/\ Len(markup) = 2
             /\ markup[f].kind = "file"
             /\ markup[e].kind = "edit"
             /\ markup[e].body = TwoBlocks) =>
                /\ ~parse_out.raised
                /\ parse_out.edit_blocks =
                     << FullReplace(_normalize_edit_path(markup[f].path),
                                    markup[f].body),
                        SearchReplace(_normalize_edit_path(markup[e].path),
                                      <<"a">>, <<"b">>),
                        SearchReplace(_normalize_edit_path(markup[e].path),
                                      <<"b">>, <<"c">>) >>

\* the operations one tag stands for
OpsOfTag(t) ==
    IF t.kind = "edit" THEN EditTagEdits(<<t>>)
    ELSE <<FullReplace(_normalize_edit_path(t.path),
                       clean_code_block(Strip(t.body)))>>

\* tag i of the response is the first of its type with its normalized path
FirstOfPath(tags, i) ==
    ~\E j \in 1..(i - 1) :
        /\ tags[j].kind = tags[i].kind
        /\ _normalize_edit_path(tags[j].path)
             = _normalize_edit_path(tags[i].path)

\* the type of the operations of a tag type
OpType(kind) == IF kind = "edit" THEN "search_replace" ELSE "full_replace"

\* C22: the operations parsed from one response are de-duplicated by path
\* within each tag type: of several <file> tags, or several <edit> tags,
\* with the same normalized path only the operations of the first are
\* returned, by parse_edit_blocks and by parse_files_from_response.
C22_FirstTagOfAPathWins ==
    mpc = "parsed" =>
        /\ ~parse_out.raised
        /\ \A i \in 1..Len(markup) :
              FirstOfPath(markup, i) =>
                 SelectSeq(parse_out.edit_blocks,
                           LAMBDA op :
                              /\ op.type = OpType(markup[i].kind)
                              /\ op.path
                                   = _normalize_edit_path(markup[i].path))
                   = OpsOfTag(markup[i])
        /\ \A i \in 1..Len(markup) :
              (markup[i].kind = "file" /\ FirstOfPath(markup, i)) =>
                 SelectSeq(parse_out.new_files,
                           LAMBDA nf :
                              nf.path = normalize_path(markup[i].path))
                   = <<[path |-> normalize_path(markup[i].path),
                        content |-> clean_file_content(
                                        markup[i].body,
                                        normalize_path(markup[i].path))]>>

\* ---------------------------------------------------------------------
\* Properties of the orphan report (checked under SpecOrphans)
\* ---------------------------------------------------------------------

\* the files some edge of the dependency graph points to
EdgeTargets ==
    UNION {{ctx.dependency_graph[k][i] :
                i \in 1..Len(ctx.dependency_graph[k])} :
              k \in DOMAIN ctx.dependency_graph}

OrphanReported(f) ==
    \E i \in 1..Len(ctx.issues) :
        ctx.issues[i].type = "orphan_file" /\ ctx.issues[i].file = f

\* the files of the modelled projects that are a dotfile, a manifest, a file
\* of a non-code extension, a file named as an entry point, a test file, or
\* a file under a framework directory
ExcludedFiles ==
    {HiddenPy, RequirementsTxt, NotesMd, MainPy, SrcMainPy, PkgInit,
     TestFooPy, TestModPy, FooTestPy, TestimonialsPy, TemplatePy}

StrippedStrategyAnswers ==
    /\ ppc = "returned"
    /\ ~(Contains(content, search) /\ Count(content, search) = 1)
    /\ ~Contains(_normalize_trailing_whitespace(content),
                 _normalize_trailing_whitespace(search))
    /\ StrippedWindows(content, search) # {}

NonBlankChars(line) == SelectSeq(line, LAMBDA ch : ch \notin WS)
IndentLen(line) == Len(line) - Len(LStrip(line))

\* the lines of the result outside the window are those of the file, and
\* the blank lines of the replacement are inserted as they are
OutsideAndBlankUnchanged ==
    LET cl == Split(content)
        n == Len(Split(Strip(search)))
        i == Min(StrippedWindows(content, search))
        rl == Split(replace)
        out == Split(result)
    IN  /\ Len(out) = Len(cl) - n + Len(rl)
        /\ \A k \in 1..i : out[k] = cl[k]
        /\ \A k \in 1..(Len(cl) - i - n) : out[i + Len(rl) + k] = cl[i + n + k]
        /\ \A k \in 1..Len(rl) :
               NonBlankChars(rl[k]) = <<>> => out[i + k] = rl[k]

\* every inserted line keeps the characters of its replacement line
NoCharacterDropped ==
    LET i == Min(StrippedWindows(content, search))
        rl == Split(replace)
        out == Split(result)
    IN  \A k \in 1..Len(rl) :
            /\ i + k <= Len(out)
            /\ NonBlankChars(out[i + k]) = NonBlankChars(rl[k])

\* two non-blank inserted lines differ in depth as their replacement lines
NestingPreserved ==
    LET i == Min(StrippedWindows(content, search))
        rl == Split(replace)
        out == Split(result)
        nb == {k \in 1..Len(rl) : NonBlankChars(rl[k]) # <<>>}
    IN  \A k, l \in nb :
            /\ i + k <= Len(out) /\ i + l <= Len(out)
            /\ IndentLen(out[i + k]) - IndentLen(out[i + l])
                   = IndentLen(rl[k]) - IndentLen(rl[l])

\* C24: when the fully-stripped sliding-window strategy answers, the lines
\* outside the window and the blank replacement lines are unchanged, no
\* non-blank character of a replacement line is dropped, and the
\* difference in depth between replacement lines is preserved
C24_ReindentKeepsEveryCharacter ==
    StrippedStrategyAnswers =>
        /\ OutsideAndBlankUnchanged
        /\ NoCharacterDropped
        /\ NestingPreserved

\* ---------------------------------------------------------------------
\* Properties of normalize_path (checked under SpecNorm)
\* ---------------------------------------------------------------------

\* no backslash, no leading "./", no repeated slash, no trailing slash
Canonical(p) ==
    /\ \A i \in 1..Len(p) : p[i] # BACKSLASH
    /\ ~(Len(p) >= 2 /\ p[1] = DOT /\ p[2] = SLASH)
    /\ \A i \in 1..(Len(p) - 1) : ~(p[i] = SLASH /\ p[i + 1] = SLASH)
    /\ (p # <<>> => p[Len(p)] # SLASH)

\* C25: the result of normalize_path has no backslash, no leading "./",
\* no repeated slash and no trailing slash, and normalising it again
\* changes nothing
C25_NormalizedIsCanonicalAndFixed ==
    /\ npc \in {"once", "twice"} => Canonical(normed.once)
    /\ npc = "twice" => normed.twice = normed.once

\* ---------------------------------------------------------------------
\* Properties of quitting and of the checkpoint (checked under
\* SpecPipeline)
\* ---------------------------------------------------------------------

\* C26: once the operator has answered quit to ask_continue in a stage,
\* the command of that stage is not run again and auto_fix is not called
\* again for it
C26_QuitStopsTheStage ==
    [][quit_seen => (runs' = runs /\ fixes' = fixes)]_vars

\* C28: run_validation_pipeline returns True only if no stage ended
\* Failed, and the validated commit and the checkpoint are made only when
\* every stage reached Passed
C28_CheckpointOnlyWhenAllPassed ==
    /\ ret = "True" => \A i \in 1..Len(stages) : status[i] # "Failed"
    /\ (vcs.validated \/ vcs.checkpoint)
          => \A i \in 1..Len(stages) : status[i] = "Passed"

\* ---------------------------------------------------------------------
\* Properties of the UndoManager (checked under SpecUndo)
\* ---------------------------------------------------------------------

\* the last operations were these, oldest first
LastOps(last) ==
    /\ Len(ulog.ops) >= Len(last)
    /\ SubSeq(ulog.ops, Len(ulog.ops) - Len(last) + 1, Len(ulog.ops)) = last

\* C27: after a send that saved the non-empty conversation m and then
\* changed it, the next undo returns m, also when m is the only state
\* saved; and the redo that follows returns the conversation the undo
\* left
C27_UndoReturnsLastSavedState ==
    /\ LastOps(<<"send", "undo">>) => ulog.ret = ulog.saved
    /\ LastOps(<<"send", "undo", "redo">>) => ulog.ret = ulog.away

\* ---------------------------------------------------------------------
\* Properties of pause and resume (checked under SpecBuild)
\* ---------------------------------------------------------------------

\* C29: every step below the next_step that the build has persisted has
\* had its response applied or was skipped by the operator; a step whose
\* generation failed is not below it
C29_StepsBelowNextStepWereHandled ==
    (progress.root.exists /\ progress.root.plan = plan_ids) =>
        \A i \in 1..Len(plan_ids) :
            plan_ids[i] < progress.root.next_step =>
                handled[i] \in {"applied", "skipped"}

\* ---------------------------------------------------------------------
\* Properties of the dependency graph (checked under SpecScan)
\* ---------------------------------------------------------------------

\* C30: after a scan every key of the dependency graph is a key of the
\* file mapping, every entry of every dependency list is a key of the
\* file mapping, and no list holds an entry twice
C30_GraphEntriesAreScannedFiles ==
    spc = "scanned" =>
        /\ DOMAIN ctx.dependency_graph \subseteq DOMAIN ctx.files
        /\ \A k \in DOMAIN ctx.dependency_graph :
               LET deps == ctx.dependency_graph[k]
               IN  /\ \A i \in 1..Len(deps) : deps[i] \in DOMAIN ctx.files
                   /\ \A i, j \in 1..Len(deps) :
                          deps[i] = deps[j] => i = j


====
